---------------------------- MODULE Spec2Model ----------------------------
(***************************************************************************)
(* Content integrity verification engine of diva (package updatecontent,   *)
(* the cmd orchestrators and diva.Results).                                *)
(*                                                                         *)
(* Each verifier is modelled as its own state machine over its own group   *)
(* of variables (prefix mh_, bfh_, cp_, ...).  A specification runs one    *)
(* verifier; the variables of the other verifiers stay at their idle       *)
(* values (Frozen).  A goroutine is a process with a program counter; a    *)
(* send on an unbuffered channel is a rendezvous with a receiver, a send   *)
(* on a buffered channel needs room in the buffer.                         *)
(***************************************************************************)
EXTENDS Integers, Sequences, FiniteSets, Bags, TLC

(***************************************************************************)
(* Shared domains.                                                         *)
(***************************************************************************)
\* Release versions an entry can carry; a floor (minVer) is 0 or a version.
Versions == {1, 2}
Floors   == {0} \cup Versions
\* Content identifiers (swupd.Hashval), and the outcome of a failed Hashcalc.
Hashes == {"h1", "h2"}
NoFile == "nofile"

\* Bound: entries of a Root Index (MoM.Files).
MaxEntries == 3
\* Bound: file entries of a sub-manifest (m.Files) in the blob verifier.
MaxFiles == 2

RECURSIVE SeqsUpTo(_, _)
\* All sequences over S of length at most n.
SeqsUpTo(S, n) ==
    IF n = 0 THEN {<< >>}
    ELSE LET shorter == SeqsUpTo(S, n - 1)
         IN  shorter \cup {Append(s, x) : s \in {t \in shorter : Len(t) = n - 1}, x \in S}

VARIABLES
    \* ---- CheckManifestHashes, []error version (part_000:524-550)
    mh_parses,   \* whether swupd.ParseManifestFile(momPath) succeeds
    mh_MoM,      \* MoM.Files: sequence of [Version, Hash]; Name is the index
    mh_disk,     \* per entry, Hashcalc(mPath): a hash, or NoFile on error
    mh_minVer,   \* the floor
    mh_pc,       \* "parse", "loop", "done"
    mh_i,        \* loop index (entries handled so far)
    mh_errs,     \* the returned errs
    \* ---- checkBundleFileHashes, []error version (part_000:552-598)
    bfh_Files,   \* m.Files: sequence of [Present, Version, Hash]
    bfh_blob,    \* per entry, Hashcalc(fLoc): a hash, or NoFile on error
    bfh_minVer,  \* the floor
    bfh_pc,      \* main goroutine: "send", "wait", "range", "done"
    bfh_i,       \* files handed to fCh so far
    bfh_w,       \* worker goroutines: [pc : "recv"/"send"/"done", err]
    bfh_errs,    \* the returned errs
    \* ---- CheckPacks, []error version (part_000:868-918), and the stage of
    \* ---- UCCheck that reports it (cmd/updatecontent.go:113-126)
    cp_parses,   \* whether swupd.ParseManifestFile(momPath) succeeds
    cp_MoM,      \* MoM.Files: [Version, parses, nerr]: the sub-manifest parses,
                 \* and pc(c, m) returns nerr errors for it
    cp_minVer,   \* the floor
    cp_pc,       \* caller: "parse", "send", "wait", "range", "ret", "reported"
    cp_i,        \* entries handed to bCh so far
    cp_w,        \* worker goroutines: [pc : "recv"/"send"/"done", es : errors to send]
    cp_errs,     \* the returned errs
    cp_r,        \* the diva.Results of UCCheck
    \* ---- CheckZeroPack, ([]string, error) version (part_000:235-256), with
    \* ---- checkBundleFileHashesPack and its buffered eCh (part_000:186-232)
    zp_tmpOK,    \* whether ioutil.TempDir succeeds
    zp_fetchOK,  \* whether helpers.TarExtractURL of the zero pack succeeds
    zp_Files,    \* m.Files: sequence of [Present, Hash]
    zp_staged,   \* per entry, Hashcalc(staged/<Hash>): a hash, or NoFile
    zp_pc,       \* caller: "tmpdir", "fetch", "send", "wait", "drain", "done"
    zp_i,        \* files handed to fCh so far
    zp_recv,     \* number of workers at "for f := range fCh"
    zp_send,     \* entries whose worker is at "eCh <- err"
    zp_done,     \* number of workers that have called wg.Done()
    zp_eCh,      \* the buffer of eCh
    zp_failures, \* the returned failures
    zp_err,      \* the returned error
    zp_tmpDir,   \* whether the temporary directory exists
    \* ---- CheckZeroPacks, error version (updatecontent/check.go:131-192), and
    \* ---- checkZeroPacks of the orchestrator (part_012:115-120)
    zps_parses,  \* whether swupd.ParseManifestFile(momPath) succeeds
    zps_MoM,     \* MoM.Files: [Version, parses, tmpOK, fetchOK, Files, staged]
    zps_minVer,  \* the floor
    zps_pc,      \* "parse", "loop", "ret", "reported"
    zps_i,       \* loop index (entries reached so far)
    zps_err,     \* the returned error
    zps_r,       \* the diva.Results of UCCheck
    \* ---- CheckZeroPack, []error version (part_000:700-724), with
    \* ---- checkBundleFileHashesPack and its unbuffered eCh (part_000:651-697)
    zpe_tmpOK,   \* whether ioutil.TempDir succeeds
    zpe_fetchOK, \* whether helpers.TarExtractURL of the zero pack succeeds
    zpe_Files,   \* m.Files: sequence of [Present, Hash]
    zpe_staged,  \* per entry, Hashcalc(staged/<Hash>): a hash, or NoFile
    zpe_pc,      \* caller: "tmpdir", "fetch", "send", "wait", "range", "done"
    zpe_i,       \* files handed to fCh so far
    zpe_recv,    \* number of workers at "for f := range fCh"
    zpe_send,    \* entries whose worker is at "eCh <- err"
    zpe_done,    \* number of workers that have called wg.Done()
    zpe_errs,    \* the returned errs
    zpe_tmpDir,  \* whether the temporary directory exists
    \* ---- checkDeltaPack(c, dir, m) (part_000:746-805, the same text as 278-337)
    dk_Files,    \* m.Files: sequence of [Version, Present, Hash]
    dk_pack,     \* what dir holds: staged copies, the delta directory listing
    dk_pc,       \* "staged", "readdir", "deltas", "ret"
    dk_deltaTos, \* keys of the deltaTos map
    dk_err,      \* the returned error
    \* ---- CheckDeltaPacks(c, m) ([]string, error) (part_000:343-416)
    dp_Files,    \* m.Files: sequence of [Version, Present, Hash]
    dp_todo,     \* keys of vers that "for v := range vers" has not reached yet
    dp_pc,       \* caller: "send", "wait", "done"
    dp_w,        \* per worker: pc, the v it received, the tmpDirs its deferred calls remove
    dp_st,       \* per v: "none", "tmpfail", "nofetch", "fetched", "ok", "failed"
    dp_pack,     \* per v: what the pack from v extracted into tmpDir
    dp_dir,      \* per v: whether its tmpDir exists
    dp_errCh,    \* contents of errCh
    dp_failCh,   \* contents of failCh
    dp_done,     \* number of wg.Done() calls
    dp_err,      \* the caller's err
    dp_fails,    \* the returned fails
    \* ---- runUCCheck / UCCheck(version, recursive) (cmd/updatecontent.go:52-129)
    \* ---- over the []error stages of part_000:524-918
    uc_version,   \* the version checked
    uc_recursive, \* --recursive
    uc_fetchOK,   \* whether FetchUpdate and FetchUpdateFiles succeed
    uc_printOK,   \* whether results.Print(os.Stdout) succeeds
    uc_momParses, \* whether Manifest.MoM of the version parses
    uc_MoM,       \* MoM.Files: sequence of [Version, defect]
    uc_pc,        \* "fetch", a stage of UCStages, "ret", "exit", "panic"
    uc_i,         \* entries the running stage has handed to its workers
    uc_blocked,   \* workers of the running stage that cannot go on
    uc_errs,      \* errors the running stage holds in a buffered channel
    uc_picked,    \* per stage: the entries its workers went on with after the floor test
    uc_bfhCalled, \* entries whose manifest CheckFileHashes gave to checkBundleFileHashes
    uc_ran,       \* the stages that returned, in order
    uc_nerrs,     \* number of errors the stages returned so far
    uc_r,         \* the diva.Results
    uc_status,    \* exit status of the process, -1 while it runs
    \* ---- UCCheck(m) of the TAP orchestrator (part_013:82-104) over the
    \* ---- Results-recording stages of part_000:34-56, 122-184, 420-490
    tp_MoM,       \* MoM.Files: sequence of [Version, defect]
    tp_momParses, \* whether Manifest.MoM parses
    tp_minVer,    \* m.MinVer
    tp_pc,        \* the stage running, or "ret"
    tp_ppc,       \* caller inside a concurrent stage: "send1", "sel"
    tp_i,         \* MoM entries the running stage is done handing out
    tp_w,         \* per worker: pc, its entry, the test of its r.Ok, the counter it read
    tp_errCh,     \* contents of errChan / eCh
    tp_err,       \* the err of the running stage; at "ret" what UCCheck returns
    tp_r,         \* Passed and Failed of the diva.Results
    tp_out,       \* the lines written by r.T.Ok and r.Diagnostic, in order
    tp_calls,     \* number of r.Ok calls
    tp_ran,       \* the stages started, in order
    \* ---- CheckPacks(r, c, version, minVer, delta) recording into a
    \* ---- diva.Results (part_000:420-490), run twice on the same inputs
    rp_MoM,       \* MoM.Files: per entry what its worker meets: "low", "err", "fail", "pass"
    rp_momParses, \* whether Manifest.MoM parses
    rp_pc,        \* "start", "loop" (the producer's range loop), "done"
    rp_i,         \* iterations of the producer's loop that are over
    rp_w,         \* per worker: pc, the test of its r.Ok, the counter it read
    rp_eCh,       \* number of errors in the buffered eCh
    rp_err,       \* err != nil in the caller
    rp_r,         \* Passed and Failed of the diva.Results
    rp_res,       \* the results recorded: bag of TRUE (ok) and FALSE (not ok)
    rp_run,       \* 1 in the first run, 2 in the second
    rp_first,     \* what the first run recorded and returned
    \* ---- FetchUpdateFiles(conf, u) (diva/fetch.go:170-220) with
    \* ---- getAllManifests (fetch.go:123-166)
    fu_manOK,     \* whether the MoM and the sub-manifests download and parse
    fu_minVer,    \* mInfo.MinVer
    fu_Files,     \* file entries of the sub-manifests at or above MinVer: [Present, Version, dlOK]
    fu_disk,      \* entries whose blob is on local storage
    fu_pc,        \* "manifests", "loop", "done"
    fu_todo,      \* keys of dlFiles not yet sent on fChan
    fu_errCh,     \* number of errors in the buffered errChan
    fu_blocked,   \* workers blocked in `errChan <- f.err`
    fu_ret,       \* the returned error, "nil" or "err"
    \* ---- GetDefinition(name, bundlesDir) of bundle/bundle.go: the resolver
    \* ---- that flags include loops (134-250) and the one that returns an
    \* ---- error (400-508)
    bd_flags,     \* TRUE: the resolver that marks loops in Includes; FALSE: the one returning an error
    bd_defs,      \* per bundle file: the names of its include(...) lines, in order
    bd_todo,      \* the names GetDefinition is still to be called for, in order
    bd_stack,     \* the active getBundleDefinition/readContent calls: name, line, vis, Includes, entry
    bd_maps,      \* the visitedIncludes maps alive: [1] made by GetDefinition, [k+1] by call k
    bd_pc,        \* "run", "done", "overflow"
    bd_err,       \* the error GetDefinition returned
    bd_out,       \* the definitions resolved: name -> Includes
    \* ---- what the verifiers of part_000:522-918 write and delete on disk
    fs_op,        \* the verifier invoked: "manifests", "files", "zero", "delta"
    fs_iters,     \* CheckDeltaPacks: versions still to be sent on vCh
    fs_pc,        \* "start", "fetch", "hash", "deltas", "done"
    fs_ntmp,      \* temporary directories ioutil.TempDir has made for this invocation
    fs_tmpDir,    \* tmpDir of the running check
    fs_todo,      \* keys of deltaTos not yet ranged over
    fs_errs,      \* len(errs) of CheckZeroPack
    fs_writes,    \* paths created or written
    fs_removed,   \* paths removed
    \* ---- CheckFileHashes(cacheLoc, version, minVer) error
    \* ---- (updatecontent/check.go:81-129)
    cf_MoM,       \* MoM.Files: per entry what its worker meets: "low", "parse", "bad", "ok"
    cf_momParses, \* whether Manifest.MoM parses
    cf_pc,        \* "start", "loop", "done"
    cf_i,         \* entries sent on fChan
    cf_blocked,   \* workers blocked in `errChan <- err`
    cf_sent,      \* number of errors the workers have come to send
    cf_ret,       \* the returned error: "nil", "parse", "joined"
    \* ---- downloadAllRPMs(packages, workingDir) (pkginfo/download_repo.go:181-244)
    dr_mkdirOK,   \* whether os.MkdirAll(outPath) succeeds
    dr_packages,  \* the URLs: [base: file name, ok: whether helpers.Download succeeds]
    dr_workers,   \* runtime.NumCPU()
    dr_pc,        \* "start", "loop", "done"
    dr_i,         \* URLs sent on urlCh
    dr_w,         \* per dlWorker: [pc: "recv", "dl", "send", "exit"; url: index in hand]
    dr_files,     \* file names present in outPath
    dr_errs,      \* len(errs) of the collecting goroutine
    dr_taken,     \* URLs a dlWorker has received
    dr_failed,    \* calls of helpers.Download that returned an error
    dr_ret,       \* the returned error: [err: "nil", "mkdir", "count"; n]
    \* ---- a sequence of Results.Add calls (diva/results.go:86-117)
    ra_r,         \* the Results value
    ra_last,      \* arguments of the last call: [err, skipped]
    \* ---- files being hashed during CheckPacks with checkBundleFileHashesPack
    \* ---- (part_000:651-697, 868-918)
    hc_momParses, \* whether Manifest.MoM parses
    hc_MoM,       \* MoM.Files: [kind: "low", "parse", "pack"; Files: "ok"/"bad" per file]
    hc_pc,        \* "start", "loop", "done"
    hc_i,         \* entries sent on bCh
    hc_w,         \* per manifest worker: [pc, man, j, hOK, hBad, blk]
    \* ---- a sequence of appendUniqueRPMName calls (pkginfo/import.go:136-144)
    au_rpms,      \* the slice: RPMs [Name, id]
    au_arg,       \* the rpm of the last call
    au_calls      \* calls made

mhVars == <<mh_parses, mh_MoM, mh_disk, mh_minVer, mh_pc, mh_i, mh_errs>>
bfhVars == <<bfh_Files, bfh_blob, bfh_minVer, bfh_pc, bfh_i, bfh_w, bfh_errs>>
cpVars == <<cp_parses, cp_MoM, cp_minVer, cp_pc, cp_i, cp_w, cp_errs, cp_r>>
zpVars == <<zp_tmpOK, zp_fetchOK, zp_Files, zp_staged, zp_pc, zp_i, zp_recv, zp_send, zp_done, zp_eCh, zp_failures, zp_err, zp_tmpDir>>
zpsVars == <<zps_parses, zps_MoM, zps_minVer, zps_pc, zps_i, zps_err, zps_r>>
zpeVars == <<zpe_tmpOK, zpe_fetchOK, zpe_Files, zpe_staged, zpe_pc, zpe_i, zpe_recv, zpe_send, zpe_done, zpe_errs, zpe_tmpDir>>
dkVars == <<dk_Files, dk_pack, dk_pc, dk_deltaTos, dk_err>>
dpVars == <<dp_Files, dp_todo, dp_pc, dp_w, dp_st, dp_pack, dp_dir, dp_errCh, dp_failCh, dp_done, dp_err, dp_fails>>
ucVars == <<uc_version, uc_recursive, uc_fetchOK, uc_printOK, uc_momParses, uc_MoM, uc_pc, uc_i, uc_blocked, uc_errs, uc_picked, uc_bfhCalled, uc_ran, uc_nerrs, uc_r, uc_status>>
tpVars == <<tp_MoM, tp_momParses, tp_minVer, tp_pc, tp_ppc, tp_i, tp_w, tp_errCh, tp_err, tp_r, tp_out, tp_calls, tp_ran>>
rpVars == <<rp_MoM, rp_momParses, rp_pc, rp_i, rp_w, rp_eCh, rp_err, rp_r, rp_res, rp_run, rp_first>>
fuVars == <<fu_manOK, fu_minVer, fu_Files, fu_disk, fu_pc, fu_todo, fu_errCh, fu_blocked, fu_ret>>
bdVars == <<bd_flags, bd_defs, bd_todo, bd_stack, bd_maps, bd_pc, bd_err, bd_out>>
fsVars == <<fs_op, fs_iters, fs_pc, fs_ntmp, fs_tmpDir, fs_todo, fs_errs, fs_writes, fs_removed>>
cfVars == <<cf_MoM, cf_momParses, cf_pc, cf_i, cf_blocked, cf_sent, cf_ret>>
drVars == <<dr_mkdirOK, dr_packages, dr_workers, dr_pc, dr_i, dr_w, dr_files, dr_errs, dr_taken, dr_failed, dr_ret>>
raVars == <<ra_r, ra_last>>
hcVars == <<hc_momParses, hc_MoM, hc_pc, hc_i, hc_w>>
auVars == <<au_rpms, au_arg, au_calls>>

vars == <<mhVars, bfhVars, cpVars, zpVars, zpsVars, zpeVars, dkVars, dpVars, ucVars, tpVars, rpVars, fuVars, bdVars, fsVars, cfVars, drVars, raVars, hcVars, auVars>>

\* A nil error (also: a worker with no error to send).
NoErr == [kind |-> "none", entry |-> 0]

(***************************************************************************)
(* Idle values of each group, and the frame of a specification g.          *)
(***************************************************************************)
MHIdle ==
    /\ mh_parses = TRUE /\ mh_MoM = << >> /\ mh_disk = << >> /\ mh_minVer = 0
    /\ mh_pc = "idle" /\ mh_i = 0 /\ mh_errs = << >>

BFHIdle ==
    /\ bfh_Files = << >> /\ bfh_blob = << >> /\ bfh_minVer = 0
    /\ bfh_pc = "idle" /\ bfh_i = 0 /\ bfh_w = << >> /\ bfh_errs = << >>

CPIdle ==
    /\ cp_parses = TRUE /\ cp_MoM = << >> /\ cp_minVer = 0 /\ cp_pc = "idle"
    /\ cp_i = 0 /\ cp_w = << >> /\ cp_errs = << >> /\ cp_r = << >>

ZPIdle ==
    /\ zp_tmpOK = TRUE /\ zp_fetchOK = TRUE /\ zp_Files = << >> /\ zp_staged = << >>
    /\ zp_pc = "idle" /\ zp_i = 0 /\ zp_recv = 0 /\ zp_send = {} /\ zp_done = 0
    /\ zp_eCh = << >> /\ zp_failures = << >> /\ zp_err = NoErr /\ zp_tmpDir = FALSE

ZPSIdle ==
    /\ zps_parses = TRUE /\ zps_MoM = << >> /\ zps_minVer = 0 /\ zps_pc = "idle"
    /\ zps_i = 0 /\ zps_err = NoErr /\ zps_r = << >>

ZPEIdle ==
    /\ zpe_tmpOK = TRUE /\ zpe_fetchOK = TRUE /\ zpe_Files = << >> /\ zpe_staged = << >>
    /\ zpe_pc = "idle" /\ zpe_i = 0 /\ zpe_recv = 0 /\ zpe_send = {} /\ zpe_done = 0
    /\ zpe_errs = << >> /\ zpe_tmpDir = FALSE

\* A nil error of the delta-pack check; its errors are [kind, entry, hash].
DNoErr == [kind |-> "none", entry |-> 0, hash |-> ""]
NoPack == [staged |-> << >>, deltaDir |-> FALSE, deltas |-> << >>]
DKIdle ==
    /\ dk_Files = << >> /\ dk_pack = NoPack /\ dk_pc = "idle"
    /\ dk_deltaTos = {} /\ dk_err = DNoErr

DPIdle ==
    /\ dp_Files = << >> /\ dp_todo = {} /\ dp_pc = "idle" /\ dp_w = << >>
    /\ dp_st = << >> /\ dp_pack = << >> /\ dp_dir = << >>
    /\ dp_errCh = << >> /\ dp_failCh = << >> /\ dp_done = 0
    /\ dp_err = DNoErr /\ dp_fails = << >>

UCIdle ==
    /\ uc_version = 0 /\ uc_recursive = FALSE /\ uc_fetchOK = TRUE /\ uc_printOK = TRUE
    /\ uc_momParses = TRUE /\ uc_MoM = << >> /\ uc_pc = "idle" /\ uc_i = 0
    /\ uc_blocked = 0 /\ uc_errs = << >> /\ uc_picked = << >> /\ uc_ran = << >>
    /\ uc_bfhCalled = {}
    /\ uc_nerrs = 0 /\ uc_r = << >> /\ uc_status = -1

TPIdle ==
    /\ tp_MoM = << >> /\ tp_momParses = TRUE /\ tp_minVer = 0 /\ tp_pc = "idle"
    /\ tp_ppc = "idle" /\ tp_i = 0 /\ tp_w = << >> /\ tp_errCh = << >> /\ tp_err = NoErr
    /\ tp_r = << >> /\ tp_out = << >> /\ tp_calls = 0 /\ tp_ran = << >>

RPIdle ==
    /\ rp_MoM = << >> /\ rp_momParses = TRUE /\ rp_pc = "idle" /\ rp_i = 0 /\ rp_w = << >>
    /\ rp_eCh = 0 /\ rp_err = FALSE /\ rp_r = << >> /\ rp_res = << >> /\ rp_run = 0
    /\ rp_first = << >>

FUIdle ==
    /\ fu_manOK = TRUE /\ fu_minVer = 0 /\ fu_Files = << >> /\ fu_disk = {} /\ fu_pc = "idle"
    /\ fu_todo = {} /\ fu_errCh = 0 /\ fu_blocked = 0 /\ fu_ret = "nil"

BDIdle ==
    /\ bd_flags = FALSE /\ bd_defs = << >> /\ bd_todo = << >> /\ bd_stack = << >>
    /\ bd_maps = << >> /\ bd_pc = "idle" /\ bd_err = NoErr /\ bd_out = << >>

FSIdle ==
    /\ fs_op = "none" /\ fs_iters = 0 /\ fs_pc = "idle" /\ fs_ntmp = 0 /\ fs_tmpDir = << >>
    /\ fs_todo = {} /\ fs_errs = 0 /\ fs_writes = {} /\ fs_removed = {}

CFIdle ==
    /\ cf_MoM = << >> /\ cf_momParses = TRUE /\ cf_pc = "idle" /\ cf_i = 0
    /\ cf_blocked = 0 /\ cf_sent = 0 /\ cf_ret = "nil"

DRIdle ==
    /\ dr_mkdirOK = TRUE /\ dr_packages = << >> /\ dr_workers = 0 /\ dr_pc = "idle"
    /\ dr_i = 0 /\ dr_w = << >> /\ dr_files = {} /\ dr_errs = 0 /\ dr_taken = {}
    /\ dr_failed = 0 /\ dr_ret = [err |-> "nil", n |-> 0]

RAIdle ==
    /\ ra_r = << >> /\ ra_last = << >>

HCIdle ==
    /\ hc_momParses = TRUE /\ hc_MoM = << >> /\ hc_pc = "idle" /\ hc_i = 0 /\ hc_w = << >>

AUIdle ==
    /\ au_rpms = << >> /\ au_arg = << >> /\ au_calls = 0

IdleBut(g) ==
    /\ IF g = "mh" THEN TRUE ELSE MHIdle
    /\ IF g = "bfh" THEN TRUE ELSE BFHIdle
    /\ IF g = "cp" THEN TRUE ELSE CPIdle
    /\ IF g = "zp" THEN TRUE ELSE ZPIdle
    /\ IF g = "zps" THEN TRUE ELSE ZPSIdle
    /\ IF g = "zpe" THEN TRUE ELSE ZPEIdle
    /\ IF g = "dk" THEN TRUE ELSE DKIdle
    /\ IF g = "dp" THEN TRUE ELSE DPIdle
    /\ IF g = "uc" THEN TRUE ELSE UCIdle
    /\ IF g = "tp" THEN TRUE ELSE TPIdle
    /\ IF g = "rp" THEN TRUE ELSE RPIdle
    /\ IF g = "fu" THEN TRUE ELSE FUIdle
    /\ IF g = "bd" THEN TRUE ELSE BDIdle
    /\ IF g = "fs" THEN TRUE ELSE FSIdle
    /\ IF g = "cf" THEN TRUE ELSE CFIdle
    /\ IF g = "dr" THEN TRUE ELSE DRIdle
    /\ IF g = "ra" THEN TRUE ELSE RAIdle
    /\ IF g = "hc" THEN TRUE ELSE HCIdle
    /\ IF g = "au" THEN TRUE ELSE AUIdle

Frozen(g) ==
    /\ IF g = "mh" THEN TRUE ELSE UNCHANGED mhVars
    /\ IF g = "bfh" THEN TRUE ELSE UNCHANGED bfhVars
    /\ IF g = "cp" THEN TRUE ELSE UNCHANGED cpVars
    /\ IF g = "zp" THEN TRUE ELSE UNCHANGED zpVars
    /\ IF g = "zps" THEN TRUE ELSE UNCHANGED zpsVars
    /\ IF g = "zpe" THEN TRUE ELSE UNCHANGED zpeVars
    /\ IF g = "dk" THEN TRUE ELSE UNCHANGED dkVars
    /\ IF g = "dp" THEN TRUE ELSE UNCHANGED dpVars
    /\ IF g = "uc" THEN TRUE ELSE UNCHANGED ucVars
    /\ IF g = "tp" THEN TRUE ELSE UNCHANGED tpVars
    /\ IF g = "rp" THEN TRUE ELSE UNCHANGED rpVars
    /\ IF g = "fu" THEN TRUE ELSE UNCHANGED fuVars
    /\ IF g = "bd" THEN TRUE ELSE UNCHANGED bdVars
    /\ IF g = "fs" THEN TRUE ELSE UNCHANGED fsVars
    /\ IF g = "cf" THEN TRUE ELSE UNCHANGED cfVars
    /\ IF g = "dr" THEN TRUE ELSE UNCHANGED drVars
    /\ IF g = "ra" THEN TRUE ELSE UNCHANGED raVars
    /\ IF g = "hc" THEN TRUE ELSE UNCHANGED hcVars
    /\ IF g = "au" THEN TRUE ELSE UNCHANGED auVars

(***************************************************************************)
(* CheckManifestHashes(c, version, minVer) (errs []error)                  *)
(***************************************************************************)
MoMEntries == [Version : Versions, Hash : Hashes]

\* Mutant: the version test skips the floor itself (<= instead of <).
ManifestEntryErrs_SkipsFloor(i, f, hash, minVer) ==
    IF f.Version <= minVer THEN << >>
    ELSE IF hash = NoFile THEN << [kind |-> "hashcalc", entry |-> i] >>
    ELSE IF hash # f.Hash THEN << [kind |-> "mismatch", entry |-> i] >>
    ELSE << >>

\* Mutant: a mismatch is not reported.
ManifestEntryErrs_NoMismatch(i, f, hash, minVer) ==
    IF f.Version < minVer THEN << >>
    ELSE IF hash = NoFile THEN << [kind |-> "hashcalc", entry |-> i] >>
    ELSE << >>

\* One iteration of the loop over MoM.Files: what it appends to errs.
\* hash is the outcome of swupd.Hashcalc(mPath).
ManifestEntryErrs(i, f, hash, minVer) ==
    IF f.Version < minVer THEN << >>
    ELSE IF hash = NoFile THEN << [kind |-> "hashcalc", entry |-> i] >>
    ELSE IF hash # f.Hash THEN << [kind |-> "mismatch", entry |-> i] >>
    ELSE << >>

MHInit ==
    /\ mh_minVer \in Floors
    /\ mh_parses \in BOOLEAN
    /\ mh_MoM \in (IF mh_parses THEN SeqsUpTo(MoMEntries, MaxEntries) ELSE {<< >>})
    /\ mh_disk \in [1..Len(mh_MoM) -> Hashes \cup {NoFile}]
    /\ mh_pc = "parse" /\ mh_i = 0 /\ mh_errs = << >>

\* swupd.ParseManifestFile(momPath): on error the error is the only result.
MH_ParseMoM ==
    /\ mh_pc = "parse"
    /\ IF mh_parses
       THEN mh_pc' = "loop" /\ mh_errs' = mh_errs
       ELSE mh_pc' = "done" /\ mh_errs' = Append(mh_errs, [kind |-> "parse", entry |-> 0])
    /\ UNCHANGED <<mh_parses, mh_MoM, mh_disk, mh_minVer, mh_i>>
    /\ Frozen("mh")

\* for i := range MoM.Files { ... }
MH_CheckEntry ==
    /\ mh_pc = "loop" /\ mh_i < Len(mh_MoM)
    /\ mh_i' = mh_i + 1
    /\ mh_errs' = mh_errs \o
           ManifestEntryErrs(mh_i + 1, mh_MoM[mh_i + 1], mh_disk[mh_i + 1], mh_minVer)
    /\ UNCHANGED <<mh_parses, mh_MoM, mh_disk, mh_minVer, mh_pc>>
    /\ Frozen("mh")

MH_Return ==
    /\ mh_pc = "loop" /\ mh_i = Len(mh_MoM)
    /\ mh_pc' = "done"
    /\ UNCHANGED <<mh_parses, mh_MoM, mh_disk, mh_minVer, mh_i, mh_errs>>
    /\ Frozen("mh")

Init == MHInit /\ IdleBut("mh")
Next == MH_ParseMoM \/ MH_CheckEntry \/ MH_Return
Spec == Init /\ [][Next]_vars

\* An entry must be reported: at or above the floor, and the computed hash is
\* not the recorded one (or there is none).
MHDefective(i) ==
    /\ mh_MoM[i].Version >= mh_minVer
    /\ mh_disk[i] # mh_MoM[i].Hash

MHErrsFor(i) == Cardinality({k \in 1..Len(mh_errs) : mh_errs[k].entry = i})

\* C1: when CheckManifestHashes returns for a parsed Root Index, errs holds an
\* error for entry M iff M.version >= floor and the hash of M's manifest file is
\* not the recorded hash (or the file cannot be hashed); matching entries and
\* entries below the floor contribute none, every entry of the Root Index has
\* been looked at, and the errors come in entry order.
C1_ManifestHashErrors ==
    (mh_pc = "done" /\ mh_parses) =>
        /\ mh_i = Len(mh_MoM)
        /\ \A i \in 1..Len(mh_MoM) : MHErrsFor(i) = IF MHDefective(i) THEN 1 ELSE 0
        /\ \A k \in 1..Len(mh_errs) : mh_errs[k].kind \in {"hashcalc", "mismatch"}
        /\ \A k, l \in 1..Len(mh_errs) : k < l => mh_errs[k].entry < mh_errs[l].entry

\* C1 witness: a mismatch on the first entry, then an entry below the floor and
\* a matching entry at or above it were all handled; one error is returned.
C1_Witness ==
    /\ mh_pc = "done" /\ mh_parses /\ Len(mh_MoM) = 3
    /\ MHDefective(1) /\ mh_disk[1] # NoFile
    /\ mh_MoM[2].Version < mh_minVer
    /\ mh_MoM[3].Version >= mh_minVer /\ mh_disk[3] = mh_MoM[3].Hash
    /\ Len(mh_errs) = 1

(***************************************************************************)
(* checkBundleFileHashes(cacheLoc, m, minVer) (errs []error)               *)
(* len(m.Files) workers range over the unbuffered fCh and send every       *)
(* defect to the unbuffered eCh; the caller receives from eCh only after   *)
(* wg.Wait() and close(eCh).                                               *)
(***************************************************************************)
FileEntries == [Present : BOOLEAN, Version : Versions, Hash : Hashes]

\* Body of the worker loop for file f (entry i): the error to send, or NoErr.
\* hash is the outcome of swupd.Hashcalc(fLoc).
FileBlobErr(i, f, hash, minVer) ==
    IF ~f.Present THEN NoErr
    ELSE IF f.Version < minVer THEN NoErr
    ELSE IF hash = NoFile THEN [kind |-> "hashcalc", entry |-> i]
    ELSE IF hash # f.Hash THEN [kind |-> "mismatch", entry |-> i]
    ELSE NoErr

BFHWorkers == 1..Len(bfh_Files)

\* The blob of an entry lives at (Version, Hash): entries that share both share
\* the outcome of Hashcalc.
BFHInit ==
    /\ bfh_minVer \in Floors
    /\ bfh_Files \in SeqsUpTo(FileEntries, MaxFiles)
    /\ bfh_blob \in [1..Len(bfh_Files) -> Hashes \cup {NoFile}]
    /\ \A i, j \in 1..Len(bfh_Files) :
           (bfh_Files[i].Version = bfh_Files[j].Version
              /\ bfh_Files[i].Hash = bfh_Files[j].Hash) => bfh_blob[i] = bfh_blob[j]
    /\ bfh_pc = "send" /\ bfh_i = 0 /\ bfh_errs = << >>
    /\ bfh_w = [w \in BFHWorkers |-> [pc |-> "recv", err |-> NoErr]]

\* fCh <- f meets a worker in "for f := range fCh"; the worker runs the loop
\* body and either comes back to the receive or goes on to "eCh <- err".
BFH_Handoff(w) ==
    /\ bfh_pc = "send" /\ bfh_i < Len(bfh_Files) /\ bfh_w[w].pc = "recv"
    /\ bfh_i' = bfh_i + 1
    /\ LET e == FileBlobErr(bfh_i + 1, bfh_Files[bfh_i + 1], bfh_blob[bfh_i + 1], bfh_minVer)
       IN  bfh_w' = [bfh_w EXCEPT ![w] =
                        IF e = NoErr THEN [pc |-> "recv", err |-> NoErr]
                                     ELSE [pc |-> "send", err |-> e]]
    /\ UNCHANGED <<bfh_Files, bfh_blob, bfh_minVer, bfh_pc, bfh_errs>>
    /\ Frozen("bfh")

\* close(fCh) after the last file; the caller goes on to wg.Wait().
BFH_CloseFCh ==
    /\ bfh_pc = "send" /\ bfh_i = Len(bfh_Files)
    /\ bfh_pc' = "wait"
    /\ UNCHANGED <<bfh_Files, bfh_blob, bfh_minVer, bfh_i, bfh_w, bfh_errs>>
    /\ Frozen("bfh")

\* A worker's range loop ends once fCh is closed; defer wg.Done().
BFH_WorkerExit(w) ==
    /\ bfh_pc # "send" /\ bfh_w[w].pc = "recv"
    /\ bfh_w' = [bfh_w EXCEPT ![w].pc = "done"]
    /\ UNCHANGED <<bfh_Files, bfh_blob, bfh_minVer, bfh_pc, bfh_i, bfh_errs>>
    /\ Frozen("bfh")

\* wg.Wait() returns when every worker has called wg.Done(); close(eCh).
BFH_Wait ==
    /\ bfh_pc = "wait" /\ \A w \in BFHWorkers : bfh_w[w].pc = "done"
    /\ bfh_pc' = "range"
    /\ UNCHANGED <<bfh_Files, bfh_blob, bfh_minVer, bfh_i, bfh_w, bfh_errs>>
    /\ Frozen("bfh")

\* for e := range eCh: receive from a worker that is sending (the only place
\* eCh is received from), or leave the loop on the closed, empty channel.
BFH_RangeECh ==
    /\ bfh_pc = "range"
    /\ IF \E w \in BFHWorkers : bfh_w[w].pc = "send"
       THEN \E w \in BFHWorkers :
               /\ bfh_w[w].pc = "send"
               /\ bfh_errs' = Append(bfh_errs, bfh_w[w].err)
               /\ bfh_w' = [bfh_w EXCEPT ![w] = [pc |-> "recv", err |-> NoErr]]
               /\ bfh_pc' = bfh_pc
       ELSE bfh_pc' = "done" /\ UNCHANGED <<bfh_w, bfh_errs>>
    /\ UNCHANGED <<bfh_Files, bfh_blob, bfh_minVer, bfh_i>>
    /\ Frozen("bfh")

BFHNext ==
    \/ \E w \in BFHWorkers : BFH_Handoff(w)
    \/ BFH_CloseFCh
    \/ \E w \in BFHWorkers : BFH_WorkerExit(w)
    \/ BFH_Wait
    \/ BFH_RangeECh
InitBFH == BFHInit /\ IdleBut("bfh")
SpecBFH == InitBFH /\ [][BFHNext]_vars

\* A file entry that must be reported: present, at or above the floor, and its
\* blob is missing or hashes to another value.
BFHDefective(i) ==
    /\ bfh_Files[i].Present
    /\ bfh_Files[i].Version >= bfh_minVer
    /\ bfh_blob[i] # bfh_Files[i].Hash

BFHErrsFor(i) == Cardinality({k \in 1..Len(bfh_errs) : bfh_errs[k].entry = i})

\* C2: checkBundleFileHashes returns to its caller (it never stops short of
\* the return), and the returned list holds exactly one error for each present
\* entry with version >= floor whose blob is missing or hashes differently, and
\* none for any other entry.
C2_ReturnsOneErrorPerDefect ==
    /\ bfh_pc = "done" \/ ENABLED BFHNext
    /\ bfh_pc = "done" =>
          \A i \in 1..Len(bfh_Files) : BFHErrsFor(i) = IF BFHDefective(i) THEN 1 ELSE 0

(***************************************************************************)
(* diva.Results and Results.Add (diva/results.go:41-50, 86-117)            *)
(***************************************************************************)
NewResults == [Passed |-> 0, Failed |-> 0, Skipped |-> 0, Total |-> 0, Tests |-> << >>]

\* As Add, but with the test of err before the test of skipped.
Add_ErrFirst(r, name, err, skipped) ==
    LET status == IF err # NoErr THEN "Fail" ELSE IF skipped THEN "Skip" ELSE "Pass"
    IN  [Passed  |-> r.Passed + (IF status = "Pass" THEN 1 ELSE 0),
         Failed  |-> r.Failed + (IF status = "Fail" THEN 1 ELSE 0),
         Skipped |-> r.Skipped + (IF status = "Skip" THEN 1 ELSE 0),
         Total   |-> r.Total + 1,
         Tests   |-> Append(r.Tests, [Name |-> name, Status |-> status, Output |-> err])]
\* err is an error record, or NoErr for nil.
Add(r, name, err, skipped) ==
    LET status == IF skipped THEN "Skip" ELSE IF err = NoErr THEN "Pass" ELSE "Fail"
    IN  [Passed  |-> r.Passed + (IF status = "Pass" THEN 1 ELSE 0),
         Failed  |-> r.Failed + (IF status = "Fail" THEN 1 ELSE 0),
         Skipped |-> r.Skipped + (IF status = "Skip" THEN 1 ELSE 0),
         Total   |-> r.Total + 1,
         Tests   |-> Append(r.Tests, [Name |-> name, Status |-> status, Output |-> err])]

RECURSIVE AddAll(_, _, _)
\* for _, e := range errs { r.Add(name, desc, e, false) }
AddAll(r, name, errs) ==
    IF errs = << >> THEN r
    ELSE AddAll(Add(r, name, Head(errs), FALSE), name, Tail(errs))

\* As ReportStage, but a stage with errors gives one failed result.
ReportStage_OneResult(r, name, errs) ==
    IF Len(errs) = 0 THEN Add(r, name, NoErr, FALSE) ELSE Add(r, name, Head(errs), FALSE)
\* One stage of UCCheck: a failed result per error, or one passed result when
\* the stage returned no error.
ReportStage(r, name, errs) ==
    IF Len(errs) = 0 THEN Add(r, name, NoErr, FALSE) ELSE AddAll(r, name, errs)

(***************************************************************************)
(* CheckPacks(c, version, minVer, pc) (errs []error)                       *)
(* Four workers range over the unbuffered bCh and send every error to the  *)
(* unbuffered eCh; the caller receives from eCh only after wg.Wait() and   *)
(* close(eCh).                                                             *)
(***************************************************************************)
\* workers := 4
cpWorkers == 4
\* Bound: errors one call of the pack check pc(c, m) returns.
MaxPackErrs == 2

CPWorkers == 1..cpWorkers
PackEntries == [Version : Versions, parses : BOOLEAN, nerr : 0..MaxPackErrs]

RECURSIVE PackErrs(_, _)
\* es := pc(c, m) for entry i: n errors.
PackErrs(i, n) ==
    IF n = 0 THEN << >>
    ELSE Append(PackErrs(i, n - 1), [kind |-> "pack", entry |-> i])

\* Body of the worker loop for MoM entry man (entry i): the errors it sends.
PackWorkerErrs(i, man, minVer) ==
    IF man.Version < minVer THEN << >>
    ELSE IF ~man.parses THEN << [kind |-> "parse", entry |-> i] >>
    ELSE PackErrs(i, man.nerr)

\* A sub-manifest that does not parse has no pack check.
CPInit ==
    /\ cp_minVer \in Floors
    /\ cp_parses \in BOOLEAN
    /\ cp_MoM \in (IF cp_parses
                   THEN SeqsUpTo({e \in PackEntries : e.parses \/ e.nerr = 0}, MaxEntries)
                   ELSE {<< >>})
    /\ cp_pc = "parse" /\ cp_i = 0 /\ cp_errs = << >>
    /\ cp_w = [w \in CPWorkers |-> [pc |-> "recv", es |-> << >>]]
    /\ cp_r = NewResults

\* swupd.ParseManifestFile(momPath); on error the error is returned at once,
\* before any worker is started.
CP_ParseMoM ==
    /\ cp_pc = "parse"
    /\ IF cp_parses
       THEN cp_pc' = "send" /\ UNCHANGED <<cp_errs, cp_w>>
       ELSE /\ cp_pc' = "ret"
            /\ cp_errs' = << [kind |-> "parse", entry |-> 0] >>
            /\ cp_w' = [w \in CPWorkers |-> [pc |-> "done", es |-> << >>]]
    /\ UNCHANGED <<cp_parses, cp_MoM, cp_minVer, cp_i, cp_r>>
    /\ Frozen("cp")

\* bCh <- b meets a worker in "for man := range bCh"; the worker runs the loop
\* body and either comes back to the receive or goes on to "eCh <- e".
CP_Handoff(w) ==
    /\ cp_pc = "send" /\ cp_i < Len(cp_MoM) /\ cp_w[w].pc = "recv"
    /\ cp_i' = cp_i + 1
    /\ LET es == PackWorkerErrs(cp_i + 1, cp_MoM[cp_i + 1], cp_minVer)
       IN  cp_w' = [cp_w EXCEPT ![w] =
                       [pc |-> IF es = << >> THEN "recv" ELSE "send", es |-> es]]
    /\ UNCHANGED <<cp_parses, cp_MoM, cp_minVer, cp_pc, cp_errs, cp_r>>
    /\ Frozen("cp")

\* close(bCh) after the last entry; the caller goes on to wg.Wait().
CP_CloseBCh ==
    /\ cp_pc = "send" /\ cp_i = Len(cp_MoM)
    /\ cp_pc' = "wait"
    /\ UNCHANGED <<cp_parses, cp_MoM, cp_minVer, cp_i, cp_w, cp_errs, cp_r>>
    /\ Frozen("cp")

\* A worker's range loop ends once bCh is closed; defer wg.Done().
CP_WorkerExit(w) ==
    /\ cp_pc \in {"wait", "range"} /\ cp_w[w].pc = "recv"
    /\ cp_w' = [cp_w EXCEPT ![w].pc = "done"]
    /\ UNCHANGED <<cp_parses, cp_MoM, cp_minVer, cp_pc, cp_i, cp_errs, cp_r>>
    /\ Frozen("cp")

\* wg.Wait() returns when all four workers have called wg.Done(); close(eCh).
CP_Wait ==
    /\ cp_pc = "wait" /\ \A w \in CPWorkers : cp_w[w].pc = "done"
    /\ cp_pc' = "range"
    /\ UNCHANGED <<cp_parses, cp_MoM, cp_minVer, cp_i, cp_w, cp_errs, cp_r>>
    /\ Frozen("cp")

\* for e := range eCh: receive from a worker that is sending (the only place
\* eCh is received from), or leave the loop on the closed, empty channel and
\* return errs.
CP_RangeECh ==
    /\ cp_pc = "range"
    /\ IF \E w \in CPWorkers : cp_w[w].pc = "send"
       THEN \E w \in CPWorkers :
               /\ cp_w[w].pc = "send"
               /\ cp_errs' = Append(cp_errs, Head(cp_w[w].es))
               /\ cp_w' = [cp_w EXCEPT ![w] =
                              [pc |-> IF Len(cp_w[w].es) = 1 THEN "recv" ELSE "send",
                               es |-> Tail(cp_w[w].es)]]
               /\ cp_pc' = cp_pc
       ELSE cp_pc' = "ret" /\ UNCHANGED <<cp_w, cp_errs>>
    /\ UNCHANGED <<cp_parses, cp_MoM, cp_minVer, cp_i, cp_r>>
    /\ Frozen("cp")

\* UCCheck: errs = CheckPacks(...); one r.Add per error, or one passing r.Add.
UC_ReportPacks ==
    /\ cp_pc = "ret"
    /\ cp_r' = ReportStage(cp_r, "Zero packs", cp_errs)
    /\ cp_pc' = "reported"
    /\ UNCHANGED <<cp_parses, cp_MoM, cp_minVer, cp_i, cp_w, cp_errs>>
    /\ Frozen("cp")

CPNext ==
    \/ CP_ParseMoM
    \/ \E w \in CPWorkers : CP_Handoff(w)
    \/ CP_CloseBCh
    \/ \E w \in CPWorkers : CP_WorkerExit(w)
    \/ CP_Wait
    \/ CP_RangeECh
    \/ UC_ReportPacks
InitCP == CPInit /\ IdleBut("cp")
SpecCP == InitCP /\ [][CPNext]_vars
\* Every goroutine that can take a step eventually takes one.
FairSpecCP == SpecCP /\ WF_vars(CPNext)

\* The sub-manifests CheckPacks has to check, and those whose pack check fails.
CPAtOrAbove == {i \in 1..Len(cp_MoM) : cp_MoM[i].Version >= cp_minVer}
CPFailing == {i \in CPAtOrAbove : cp_MoM[i].nerr > 0}

\* The scenario of C3: a parsed MoM with at least one sub-manifest at or above
\* the floor, all of which parse, each failing pack check with one error.
C3_Scenario ==
    /\ cp_parses /\ CPAtOrAbove # {}
    /\ \A i \in CPAtOrAbove : cp_MoM[i].parses /\ cp_MoM[i].nerr <= 1

\* C3: partial-failure aggregation.  In the scenario, with N sub-manifests at or
\* above the floor of which k fail, the run gets to the report of the stage and
\* that report holds exactly k failure entries and N - k pass entries.
C3_PartialFailureAggregation ==
    C3_Scenario =>
        /\ cp_pc = "reported" \/ ENABLED CPNext
        /\ cp_pc = "reported" =>
              /\ cp_r.Failed = Cardinality(CPFailing)
              /\ cp_r.Passed = Cardinality(CPAtOrAbove) - Cardinality(CPFailing)

\* C3, the part a finite completed run decides: the counts of the report.
C3_ReportCounts ==
    (C3_Scenario /\ cp_pc = "reported") =>
        /\ cp_r.Failed = Cardinality(CPFailing)
        /\ cp_r.Passed = Cardinality(CPAtOrAbove) - Cardinality(CPFailing)

\* C4: every call of CheckPacks terminates: the workers exit, wg.Wait returns
\* and the error list is returned.
C4_CheckPacksTerminates == <>(cp_pc \in {"ret", "reported"})

(***************************************************************************)
(* CheckZeroPack(c, m) ([]string, error) and checkBundleFileHashesPack     *)
(* (filesLoc, m, minVer) []error with eCh := make(chan error, workers).    *)
(* The four workers run the same closure and are told apart only by what   *)
(* they hold, so the pool is kept as counts.                               *)
(***************************************************************************)
\* workers := 4 // have to deal with "too many open files"
packWorkers == 4
\* Bound: file entries of the manifest whose zero pack is checked.
MaxPackFiles == 5
\* The hash of content that is not the content of any entry.
OtherHash == "other"
\* The content identifier of entry i of a manifest whose entries all differ.
HashOf(i) == ToString(i)

\* Body of the worker loop for file f (entry i) with minVer = 0: the error to
\* send, or NoErr.  hash is the outcome of swupd.Hashcalc(fLoc).
PackFileErr(i, f, hash) ==
    IF ~f.Present THEN NoErr
    ELSE IF hash = NoFile THEN [kind |-> "hashcalc", entry |-> i]
    ELSE IF hash # f.Hash THEN [kind |-> "mismatch", entry |-> i]
    ELSE NoErr

\* Entry i has content identifier HashOf(i); the pack holds no file for an entry that
\* is not present.
ZPInit ==
    /\ zp_tmpOK \in BOOLEAN
    /\ zp_fetchOK \in (IF zp_tmpOK THEN BOOLEAN ELSE {FALSE})
    /\ \E n \in (IF zp_fetchOK THEN 0..MaxPackFiles ELSE {0}) :
          /\ \E present \in [1..n -> BOOLEAN] :
                zp_Files = [i \in 1..n |-> [Present |-> present[i], Hash |-> HashOf(i)]]
          /\ zp_staged \in [1..n -> {HashOf(i) : i \in 1..n} \cup {OtherHash, NoFile}]
    /\ \A i \in 1..Len(zp_Files) :
          /\ zp_staged[i] \in {HashOf(i), OtherHash, NoFile}
          /\ ~zp_Files[i].Present => zp_staged[i] = NoFile
    /\ zp_pc = "tmpdir" /\ zp_i = 0
    /\ zp_recv = 0 /\ zp_send = {} /\ zp_done = 0 /\ zp_eCh = << >>
    /\ zp_failures = << >> /\ zp_err = NoErr /\ zp_tmpDir = FALSE

\* tmpDir, err := ioutil.TempDir(...); on error return at once.
ZP_TempDir ==
    /\ zp_pc = "tmpdir"
    /\ IF zp_tmpOK
       THEN zp_pc' = "fetch" /\ zp_tmpDir' = TRUE /\ zp_err' = zp_err
       ELSE zp_pc' = "done" /\ zp_tmpDir' = FALSE /\ zp_err' = [kind |-> "tempdir", entry |-> 0]
    /\ UNCHANGED <<zp_tmpOK, zp_fetchOK, zp_Files, zp_staged, zp_i, zp_recv, zp_send,
                   zp_done, zp_eCh, zp_failures>>
    /\ Frozen("zp")

\* helpers.TarExtractURL; on error return through the deferred os.RemoveAll.
\* Otherwise checkBundleFileHashesPack starts its four workers.
ZP_Fetch ==
    /\ zp_pc = "fetch"
    /\ IF zp_fetchOK
       THEN zp_pc' = "send" /\ zp_recv' = packWorkers /\ UNCHANGED <<zp_err, zp_tmpDir>>
       ELSE /\ zp_pc' = "done" /\ zp_err' = [kind |-> "fetch", entry |-> 0]
            /\ zp_tmpDir' = FALSE /\ zp_recv' = zp_recv
    /\ UNCHANGED <<zp_tmpOK, zp_fetchOK, zp_Files, zp_staged, zp_i, zp_send, zp_done,
                   zp_eCh, zp_failures>>
    /\ Frozen("zp")

\* fCh <- f meets a worker in "for f := range fCh"; the worker runs the loop
\* body and either comes back to the receive or goes on to "eCh <- err".
ZP_Handoff ==
    /\ zp_pc = "send" /\ zp_i < Len(zp_Files) /\ zp_recv > 0
    /\ zp_i' = zp_i + 1
    /\ IF PackFileErr(zp_i + 1, zp_Files[zp_i + 1], zp_staged[zp_i + 1]) = NoErr
       THEN UNCHANGED <<zp_recv, zp_send>>
       ELSE zp_recv' = zp_recv - 1 /\ zp_send' = zp_send \cup {zp_i + 1}
    /\ UNCHANGED <<zp_tmpOK, zp_fetchOK, zp_Files, zp_staged, zp_pc, zp_done, zp_eCh,
                   zp_failures, zp_err, zp_tmpDir>>
    /\ Frozen("zp")

\* eCh <- err goes through when the buffer has room; the worker continues.
ZP_SendErr(i) ==
    /\ i \in zp_send /\ Len(zp_eCh) < packWorkers
    /\ zp_eCh' = Append(zp_eCh, PackFileErr(i, zp_Files[i], zp_staged[i]))
    /\ zp_send' = zp_send \ {i} /\ zp_recv' = zp_recv + 1
    /\ UNCHANGED <<zp_tmpOK, zp_fetchOK, zp_Files, zp_staged, zp_pc, zp_i, zp_done,
                   zp_failures, zp_err, zp_tmpDir>>
    /\ Frozen("zp")

\* close(fCh) after the last file; the caller goes on to wg.Wait().
ZP_CloseFCh ==
    /\ zp_pc = "send" /\ zp_i = Len(zp_Files)
    /\ zp_pc' = "wait"
    /\ UNCHANGED <<zp_tmpOK, zp_fetchOK, zp_Files, zp_staged, zp_i, zp_recv, zp_send,
                   zp_done, zp_eCh, zp_failures, zp_err, zp_tmpDir>>
    /\ Frozen("zp")

\* A worker's range loop ends once fCh is closed; defer wg.Done().
ZP_WorkerExit ==
    /\ zp_pc = "wait" /\ zp_recv > 0
    /\ zp_recv' = zp_recv - 1 /\ zp_done' = zp_done + 1
    /\ UNCHANGED <<zp_tmpOK, zp_fetchOK, zp_Files, zp_staged, zp_pc, zp_i, zp_send,
                   zp_eCh, zp_failures, zp_err, zp_tmpDir>>
    /\ Frozen("zp")

\* wg.Wait() returns when all four workers have called wg.Done().
ZP_Wait ==
    /\ zp_pc = "wait" /\ zp_done = packWorkers
    /\ zp_pc' = "drain"
    /\ UNCHANGED <<zp_tmpOK, zp_fetchOK, zp_Files, zp_staged, zp_i, zp_recv, zp_send,
                   zp_done, zp_eCh, zp_failures, zp_err, zp_tmpDir>>
    /\ Frozen("zp")

\* chanLen := len(eCh); chanLen receives; CheckZeroPack turns each error into
\* a failure string, returns them with a nil error, and the deferred
\* os.RemoveAll(tmpDir) runs.
ZP_DrainAndReturn ==
    /\ zp_pc = "drain"
    /\ zp_failures' = zp_eCh /\ zp_eCh' = << >>
    /\ zp_pc' = "done" /\ zp_tmpDir' = FALSE
    /\ UNCHANGED <<zp_tmpOK, zp_fetchOK, zp_Files, zp_staged, zp_i, zp_recv, zp_send,
                   zp_done, zp_err>>
    /\ Frozen("zp")

ZPNext ==
    \/ ZP_TempDir
    \/ ZP_Fetch
    \/ ZP_Handoff
    \/ \E i \in 1..Len(zp_Files) : ZP_SendErr(i)
    \/ ZP_CloseFCh
    \/ ZP_WorkerExit
    \/ ZP_Wait
    \/ ZP_DrainAndReturn
InitZP == ZPInit /\ IdleBut("zp")
SpecZP == InitZP /\ [][ZPNext]_vars

\* The present entries whose file in the staged directory is missing or hashes
\* differently.
ZPDefective ==
    {i \in 1..Len(zp_Files) : zp_Files[i].Present /\ zp_staged[i] # zp_Files[i].Hash}

\* C5: zero-pack round trip.  Once the zero pack was fetched and extracted,
\* CheckZeroPack returns, and it returns exactly k failure strings and no
\* error, k being the number of defective present entries, for every k.
C5_ZeroPackRoundTrip ==
    (zp_tmpOK /\ zp_fetchOK) =>
        /\ zp_pc = "done" \/ ENABLED ZPNext
        /\ zp_pc = "done" =>
              /\ zp_err = NoErr
              /\ Len(zp_failures) = Cardinality(ZPDefective)
              /\ {zp_failures[k].entry : k \in 1..Len(zp_failures)} = ZPDefective

\* The same for at most packWorkers (the capacity of eCh) defective entries.
C5_UpToCapacity ==
    (zp_tmpOK /\ zp_fetchOK /\ Cardinality(ZPDefective) <= packWorkers) =>
        /\ zp_pc = "done" \/ ENABLED ZPNext
        /\ zp_pc = "done" =>
              /\ zp_err = NoErr
              /\ Len(zp_failures) = Cardinality(ZPDefective)
              /\ {zp_failures[k].entry : k \in 1..Len(zp_failures)} = ZPDefective

(***************************************************************************)
(* CheckZeroPacks(c, version, minVer) error, with the sequential           *)
(* checkZeroPack and checkBundleFileHashesPack of the same file, and the   *)
(* orchestrator's checkZeroPacks that records the result.                  *)
(***************************************************************************)
\* Bound: sub-manifests of the Root Index whose zero packs are checked.
MaxPackManifests == 2

RECURSIVE SeqBundleFileHashesPack(_, _, _, _)
\* checkBundleFileHashesPack(filesLoc, m, minVer) error, from entry i on: the
\* first error ends the loop.  There is no Present() test in this version.
SeqBundleFileHashesPack(i, Files, staged, minVer) ==
    IF i > Len(Files) THEN NoErr
    ELSE IF Files[i].Version < minVer THEN SeqBundleFileHashesPack(i + 1, Files, staged, minVer)
    ELSE IF staged[i] = NoFile THEN [kind |-> "hashcalc", entry |-> i]
    ELSE IF staged[i] # Files[i].Hash THEN [kind |-> "mismatch", entry |-> i]
    ELSE SeqBundleFileHashesPack(i + 1, Files, staged, minVer)

\* checkZeroPack(c, m) error
checkZeroPack(man) ==
    IF ~man.tmpOK THEN [kind |-> "tempdir", entry |-> 0]
    ELSE IF ~man.fetchOK THEN [kind |-> "fetch", entry |-> 0]
    ELSE SeqBundleFileHashesPack(1, man.Files, man.staged, 0)

\* The n file entries of a sub-manifest of version v (entry i has content
\* identifier HashOf(i)) and the outcome of Hashcalc on the pack's copy of
\* each; the pack holds no file for an entry that is not present.
ZPSPacks(v, n) ==
    {[Files  |-> [i \in 1..n |-> [Present |-> k[i] # "absent", Version |-> v, Hash |-> HashOf(i)]],
      staged |-> [i \in 1..n |-> IF k[i] = "match" THEN HashOf(i)
                                 ELSE IF k[i] = "absent" THEN NoFile ELSE k[i]]] :
        k \in [1..n -> {"match", "absent", OtherHash, NoFile}]}

\* Sub-manifests as CheckZeroPacks meets them: one that does not parse, one
\* whose TempDir or fetch fails, or one with a fetched and extracted pack.
ZPSEntries ==
    UNION {
        {[Version |-> v, parses |-> FALSE, tmpOK |-> FALSE, fetchOK |-> FALSE,
          Files |-> << >>, staged |-> << >>],
         [Version |-> v, parses |-> TRUE, tmpOK |-> FALSE, fetchOK |-> FALSE,
          Files |-> << >>, staged |-> << >>],
         [Version |-> v, parses |-> TRUE, tmpOK |-> TRUE, fetchOK |-> FALSE,
          Files |-> << >>, staged |-> << >>]}
        \cup {[Version |-> v, parses |-> TRUE, tmpOK |-> TRUE, fetchOK |-> TRUE,
               Files |-> p.Files, staged |-> p.staged] :
                 p \in UNION {ZPSPacks(v, n) : n \in 0..MaxFiles}} :
        v \in Versions}

ZPSInit ==
    /\ zps_minVer \in Floors
    /\ zps_parses \in BOOLEAN
    /\ zps_MoM \in (IF zps_parses THEN SeqsUpTo(ZPSEntries, MaxPackManifests) ELSE {<< >>})
    /\ zps_pc = "parse" /\ zps_i = 0 /\ zps_err = NoErr /\ zps_r = NewResults

\* swupd.ParseManifestFile(momPath)
ZPS_ParseMoM ==
    /\ zps_pc = "parse"
    /\ IF zps_parses
       THEN zps_pc' = "loop" /\ zps_err' = zps_err
       ELSE zps_pc' = "ret" /\ zps_err' = [kind |-> "parse", entry |-> 0]
    /\ UNCHANGED <<zps_parses, zps_MoM, zps_minVer, zps_i, zps_r>>
    /\ Frozen("zps")

\* What one iteration of the loop returns: "continue", or the value returned.
\* A failed parse returns its error; a failed checkZeroPack returns nil.
ZeroPacksStep(i, man, minVer) ==
    IF man.Version < minVer THEN [ret |-> FALSE, err |-> NoErr]
    ELSE IF ~man.parses THEN [ret |-> TRUE, err |-> [kind |-> "parse", entry |-> i]]
    ELSE IF checkZeroPack(man) # NoErr THEN [ret |-> TRUE, err |-> NoErr]
    ELSE [ret |-> FALSE, err |-> NoErr]

\* for i := range MoM.Files { ... }
ZPS_CheckEntry ==
    /\ zps_pc = "loop" /\ zps_i < Len(zps_MoM)
    /\ zps_i' = zps_i + 1
    /\ LET step == ZeroPacksStep(zps_i + 1, zps_MoM[zps_i + 1], zps_minVer)
       IN  /\ zps_pc' = IF step.ret THEN "ret" ELSE "loop"
           /\ zps_err' = step.err
    /\ UNCHANGED <<zps_parses, zps_MoM, zps_minVer, zps_r>>
    /\ Frozen("zps")

\* return nil after the loop
ZPS_Return ==
    /\ zps_pc = "loop" /\ zps_i = Len(zps_MoM)
    /\ zps_pc' = "ret" /\ zps_err' = NoErr
    /\ UNCHANGED <<zps_parses, zps_MoM, zps_minVer, zps_i, zps_r>>
    /\ Frozen("zps")

\* checkZeroPacks: err := updatecontent.CheckZeroPacks(...); r.Add(name, desc, err, false)
UC_checkZeroPacks ==
    /\ zps_pc = "ret"
    /\ zps_r' = Add(zps_r, "Zero packs", zps_err, FALSE)
    /\ zps_pc' = "reported"
    /\ UNCHANGED <<zps_parses, zps_MoM, zps_minVer, zps_i, zps_err>>
    /\ Frozen("zps")

ZPSNext == ZPS_ParseMoM \/ ZPS_CheckEntry \/ ZPS_Return \/ UC_checkZeroPacks
InitZPS == ZPSInit /\ IdleBut("zps")
SpecZPS == InitZPS /\ [][ZPSNext]_vars

\* The sub-manifests reached so far whose zero-pack check failed: the archive
\* could not be fetched or extracted, or a file in it is missing or mismatches.
ZPSFailedPacks ==
    {i \in 1..zps_i : /\ zps_MoM[i].Version >= zps_minVer
                      /\ zps_MoM[i].parses
                      /\ checkZeroPack(zps_MoM[i]) # NoErr}

\* C6: a failing zero-pack check is a hard failure: when the zero-pack check of
\* a sub-manifest fails, CheckZeroPacks returns a non-nil error and the
\* "Zero packs" result is recorded with status Fail.
C6_ZeroPackFailureIsHard ==
    (zps_pc \in {"ret", "reported"} /\ ZPSFailedPacks # {}) =>
        /\ zps_err # NoErr
        /\ zps_pc = "reported" =>
              /\ zps_r.Failed = 1 /\ zps_r.Passed = 0
              /\ zps_r.Tests[1].Status = "Fail"

(***************************************************************************)
(* CheckZeroPack(c, m) (errs []error) and checkBundleFileHashesPack        *)
(* (filesLoc, m, minVer) []error with eCh := make(chan error).  The        *)
(* deferred function removes tmpDir only when errs is empty.               *)
(***************************************************************************)
\* workers := 4 // have to deal with "too many open files"
packWorkersE == 4
\* Bound: file entries of the manifest whose zero pack is checked.
MaxPackFilesE == 3

ZPEInit ==
    /\ zpe_tmpOK \in BOOLEAN
    /\ zpe_fetchOK \in (IF zpe_tmpOK THEN BOOLEAN ELSE {FALSE})
    /\ \E p \in UNION {ZPSPacks(1, n) : n \in (IF zpe_fetchOK THEN 0..MaxPackFilesE ELSE {0})} :
          /\ zpe_Files = p.Files
          /\ zpe_staged = p.staged
    /\ zpe_pc = "tmpdir" /\ zpe_i = 0
    /\ zpe_recv = 0 /\ zpe_send = {} /\ zpe_done = 0
    /\ zpe_errs = << >> /\ zpe_tmpDir = FALSE

\* tmpDir, err := ioutil.TempDir(...); on error return at once (nothing is
\* deferred yet).
ZPE_TempDir ==
    /\ zpe_pc = "tmpdir"
    /\ IF zpe_tmpOK
       THEN zpe_pc' = "fetch" /\ zpe_tmpDir' = TRUE /\ zpe_errs' = zpe_errs
       ELSE /\ zpe_pc' = "done" /\ zpe_tmpDir' = FALSE
            /\ zpe_errs' = Append(zpe_errs, [kind |-> "tempdir", entry |-> 0])
    /\ UNCHANGED <<zpe_tmpOK, zpe_fetchOK, zpe_Files, zpe_staged, zpe_i, zpe_recv,
                   zpe_send, zpe_done>>
    /\ Frozen("zpe")

\* The deferred function of CheckZeroPack, run with the errs being returned:
\* whether tmpDir still exists afterwards.
DeferredRemove(exists, errs) == IF Len(errs) = 0 THEN FALSE ELSE exists

\* helpers.TarExtractURL; on error errs = [err] and return through the deferred
\* function.  Otherwise checkBundleFileHashesPack starts its four workers.
ZPE_Fetch ==
    /\ zpe_pc = "fetch"
    /\ IF zpe_fetchOK
       THEN zpe_pc' = "send" /\ zpe_recv' = packWorkersE /\ UNCHANGED <<zpe_errs, zpe_tmpDir>>
       ELSE /\ zpe_pc' = "done"
            /\ zpe_errs' = Append(zpe_errs, [kind |-> "fetch", entry |-> 0])
            /\ zpe_tmpDir' = DeferredRemove(zpe_tmpDir, zpe_errs')
            /\ zpe_recv' = zpe_recv
    /\ UNCHANGED <<zpe_tmpOK, zpe_fetchOK, zpe_Files, zpe_staged, zpe_i, zpe_send, zpe_done>>
    /\ Frozen("zpe")

\* fCh <- f meets a worker in "for f := range fCh"; the worker runs the loop
\* body and either comes back to the receive or goes on to "eCh <- err".
ZPE_Handoff ==
    /\ zpe_pc = "send" /\ zpe_i < Len(zpe_Files) /\ zpe_recv > 0
    /\ zpe_i' = zpe_i + 1
    /\ IF PackFileErr(zpe_i + 1, zpe_Files[zpe_i + 1], zpe_staged[zpe_i + 1]) = NoErr
       THEN UNCHANGED <<zpe_recv, zpe_send>>
       ELSE zpe_recv' = zpe_recv - 1 /\ zpe_send' = zpe_send \cup {zpe_i + 1}
    /\ UNCHANGED <<zpe_tmpOK, zpe_fetchOK, zpe_Files, zpe_staged, zpe_pc, zpe_done,
                   zpe_errs, zpe_tmpDir>>
    /\ Frozen("zpe")

\* close(fCh) after the last file; the caller goes on to wg.Wait().
ZPE_CloseFCh ==
    /\ zpe_pc = "send" /\ zpe_i = Len(zpe_Files)
    /\ zpe_pc' = "wait"
    /\ UNCHANGED <<zpe_tmpOK, zpe_fetchOK, zpe_Files, zpe_staged, zpe_i, zpe_recv,
                   zpe_send, zpe_done, zpe_errs, zpe_tmpDir>>
    /\ Frozen("zpe")

\* A worker's range loop ends once fCh is closed; defer wg.Done().
ZPE_WorkerExit ==
    /\ zpe_pc \in {"wait", "range"} /\ zpe_recv > 0
    /\ zpe_recv' = zpe_recv - 1 /\ zpe_done' = zpe_done + 1
    /\ UNCHANGED <<zpe_tmpOK, zpe_fetchOK, zpe_Files, zpe_staged, zpe_pc, zpe_i,
                   zpe_send, zpe_errs, zpe_tmpDir>>
    /\ Frozen("zpe")

\* wg.Wait() returns when all four workers have called wg.Done(); close(eCh).
ZPE_Wait ==
    /\ zpe_pc = "wait" /\ zpe_done = packWorkersE
    /\ zpe_pc' = "range"
    /\ UNCHANGED <<zpe_tmpOK, zpe_fetchOK, zpe_Files, zpe_staged, zpe_i, zpe_recv,
                   zpe_send, zpe_done, zpe_errs, zpe_tmpDir>>
    /\ Frozen("zpe")

\* for e := range eCh: receive from a worker that is sending (the only place
\* eCh is received from), or leave the loop on the closed, empty channel;
\* CheckZeroPack appends the errors to errs and returns through the deferred
\* function.
ZPE_RangeECh ==
    /\ zpe_pc = "range"
    /\ IF zpe_send # {}
       THEN \E i \in zpe_send :
               /\ zpe_errs' = Append(zpe_errs, PackFileErr(i, zpe_Files[i], zpe_staged[i]))
               /\ zpe_send' = zpe_send \ {i} /\ zpe_recv' = zpe_recv + 1
               /\ UNCHANGED <<zpe_pc, zpe_tmpDir>>
       ELSE /\ zpe_pc' = "done"
            /\ zpe_tmpDir' = DeferredRemove(zpe_tmpDir, zpe_errs)
            /\ UNCHANGED <<zpe_send, zpe_recv, zpe_errs>>
    /\ UNCHANGED <<zpe_tmpOK, zpe_fetchOK, zpe_Files, zpe_staged, zpe_i, zpe_done>>
    /\ Frozen("zpe")

ZPENext ==
    \/ ZPE_TempDir
    \/ ZPE_Fetch
    \/ ZPE_Handoff
    \/ ZPE_CloseFCh
    \/ ZPE_WorkerExit
    \/ ZPE_Wait
    \/ ZPE_RangeECh
InitZPE == ZPEInit /\ IdleBut("zpe")
SpecZPE == InitZPE /\ [][ZPENext]_vars

\* C7: every invocation of CheckZeroPack that created a temporary extraction
\* directory has removed it by the time it returns, on every exit path.
C7_TempDirRemovedOnReturn ==
    (zpe_pc = "done" /\ zpe_tmpOK) => ~zpe_tmpDir

(***************************************************************************)
(* checkDeltaPack(c, dir, m) error and checkSingleDelta(deltaFile,         *)
(* fromFile, expHash) error.  dir holds an extracted delta pack: full      *)
(* copies under dir/staged/<hash> and patches under dir/delta/, named      *)
(* <fromVer>-<toVer>-<fromHash>-<toHash>.                                  *)
(***************************************************************************)
\* m.Header.Version of the manifest whose delta packs are checked.
HdrVer == 2
\* Bound: file entries of that manifest.
MaxDeltaFiles == 2
\* Bound: names in the listing of dir/delta.
MaxDeltas == 2

DErr(kind, entry, hash) == [kind |-> kind, entry |-> entry, hash |-> hash]

\* What happens to one delta file when it is used: the source at
\* (fromV, fromH) cannot be fetched, bspatch fails, the patched file cannot be
\* hashed, or it hashes to something else than / exactly the target hash.
DeltaResults == {"srcfail", "patchfail", "nohash", "wrong", "right"}
\* One name of the listing: nf is the number of "-"-separated fields of the
\* name, to is its last field.
DeltaRecs(T) == [nf : {3, 4}, to : T, res : DeltaResults]
\* An extracted pack: Hashcalc of dir/staged/<h> for each hash h of H (NoFile
\* when it fails), whether dir/delta can be listed, and its listing in name
\* order, of at most n names whose last fields are in T.
DeltaPacks(H, T, n) ==
    {[staged |-> s, deltaDir |-> TRUE, deltas |-> d] :
        s \in {t \in [H -> H \cup {NoFile, OtherHash}] : \A h \in H : t[h] \in {NoFile, h, OtherHash}},
        d \in SeqsUpTo(DeltaRecs(T), n)}
    \cup
    {[staged |-> s, deltaDir |-> FALSE, deltas |-> << >>] :
        s \in {t \in [H -> H \cup {NoFile, OtherHash}] : \A h \in H : t[h] \in {NoFile, h, OtherHash}}}
DeltaManifests(H, n) == SeqsUpTo([Version : Versions, Present : BOOLEAN, Hash : H], n)

\* The entries the first loop looks at.
NeedsCheck(f) == f.Version = HdrVer /\ f.Present
\* Entries whose staged copy can be hashed and hashes to something else.
StagedMismatch(Files, pack) ==
    {i \in 1..Len(Files) : /\ NeedsCheck(Files[i])
                           /\ pack.staged[Files[i].Hash] \notin {NoFile, Files[i].Hash}}
\* The first loop returns at the first such entry.
StagedErr(Files, pack) ==
    LET bad == StagedMismatch(Files, pack)
    IN  IF bad = {} THEN DNoErr
        ELSE LET i == CHOOSE j \in bad : \A k \in bad : j <= k
             IN  DErr("staged", i, Files[i].Hash)
\* Keys of deltaTos: the hashes of the entries with no readable staged copy.
DeltaTos(Files, pack) ==
    {Files[i].Hash : i \in {j \in 1..Len(Files) : /\ NeedsCheck(Files[j])
                                                  /\ pack.staged[Files[j].Hash] = NoFile}}
\* deltaNames: for each last field of a four-field name, the last such name
\* of the listing (as its position in the listing).
DeltaNames(pack) ==
    LET four(h) == {k \in 1..Len(pack.deltas) : pack.deltas[k].nf = 4 /\ pack.deltas[k].to = h}
    IN  [h \in {pack.deltas[k].to : k \in {j \in 1..Len(pack.deltas) : pack.deltas[j].nf = 4}} |->
            CHOOSE k \in four(h) : \A j \in four(h) : j <= k]

\* As checkSingleDelta, but a patched file with another hash is let through.
checkSingleDelta_NoHashCheck(k, d, expHash) ==
    IF d.res = "patchfail" THEN DErr("bspatch", k, expHash)
    ELSE IF d.res = "nohash" THEN DErr("hashcalc", k, expHash)
    ELSE DNoErr
\* checkSingleDelta for listing entry k (record d): bspatch, Hashcalc of the
\* patched file, comparison with expHash.
checkSingleDelta(k, d, expHash) ==
    IF d.res = "patchfail" THEN DErr("bspatch", k, expHash)
    ELSE IF d.res = "nohash" THEN DErr("hashcalc", k, expHash)
    ELSE IF d.res = "wrong" THEN DErr("wronghash", k, expHash)
    ELSE DNoErr
\* As DeltaErr, but a hash with no delta name is passed over.
DeltaErr_MissingIsFine(h, pack) ==
    IF h \notin DOMAIN DeltaNames(pack) THEN DNoErr
    ELSE LET k == DeltaNames(pack)[h]
         IN  IF pack.deltas[k].res = "srcfail" THEN DErr("srcfetch", k, h)
             ELSE checkSingleDelta(k, pack.deltas[k], h)
\* Body of "for h := range deltaTos".
DeltaErr(h, pack) ==
    IF h \notin DOMAIN DeltaNames(pack) THEN DErr("nodelta", 0, h)
    ELSE LET k == DeltaNames(pack)[h]
         IN  IF pack.deltas[k].res = "srcfail" THEN DErr("srcfetch", k, h)
             ELSE checkSingleDelta(k, pack.deltas[k], h)
\* The map is ranged over in no fixed order and the loop returns at the first
\* error: any failing key can be the one that is returned.
DeltaLoopErrs(tos, pack) ==
    LET bad == {DeltaErr(h, pack) : h \in tos} \ {DNoErr}
    IN  IF bad = {} THEN {DNoErr} ELSE bad
\* The errors checkDeltaPack can return for m.Files = Files on this pack.
checkDeltaPack(Files, pack) ==
    IF StagedErr(Files, pack) # DNoErr THEN {StagedErr(Files, pack)}
    ELSE IF ~pack.deltaDir THEN {DErr("readdir", 0, "")}
    ELSE DeltaLoopErrs(DeltaTos(Files, pack), pack)
\* The error texts that contain the path of the delta file: the bspatch
\* command line and "delta %s produced incorrect hash".
NamesDelta(e) == e.kind \in {"bspatch", "wronghash"}

DKInit ==
    /\ dk_Files \in DeltaManifests(Hashes, MaxDeltaFiles)
    /\ dk_pack \in DeltaPacks(Hashes, Hashes, MaxDeltas)
    /\ dk_pc = "staged" /\ dk_deltaTos = {} /\ dk_err = DNoErr

\* for i := range m.Files: staged copies.
DK_Staged ==
    /\ dk_pc = "staged"
    /\ IF StagedErr(dk_Files, dk_pack) # DNoErr
       THEN dk_pc' = "ret" /\ dk_err' = StagedErr(dk_Files, dk_pack) /\ dk_deltaTos' = dk_deltaTos
       ELSE dk_pc' = "readdir" /\ dk_err' = dk_err /\ dk_deltaTos' = DeltaTos(dk_Files, dk_pack)
    /\ UNCHANGED <<dk_Files, dk_pack>>
    /\ Frozen("dk")

\* ioutil.ReadDir(dir/delta) and the deltaNames map.
DK_ReadDir ==
    /\ dk_pc = "readdir"
    /\ IF dk_pack.deltaDir
       THEN dk_pc' = "deltas" /\ dk_err' = dk_err
       ELSE dk_pc' = "ret" /\ dk_err' = DErr("readdir", 0, "")
    /\ UNCHANGED <<dk_Files, dk_pack, dk_deltaTos>>
    /\ Frozen("dk")

\* for h := range deltaTos, and return.
DK_Deltas ==
    /\ dk_pc = "deltas"
    /\ dk_err' \in DeltaLoopErrs(dk_deltaTos, dk_pack)
    /\ dk_pc' = "ret"
    /\ UNCHANGED <<dk_Files, dk_pack, dk_deltaTos>>
    /\ Frozen("dk")

DKNext ==
    \/ DK_Staged
    \/ DK_ReadDir
    \/ DK_Deltas
InitDK == DKInit /\ IdleBut("dk")
SpecDK == InitDK /\ [][DKNext]_vars

\* Entry i is acceptable on this pack: its staged copy hashes to its hash, or
\* the delta named with its hash reconstructs content with that hash.
Acceptable(Files, pack, i) ==
    \/ pack.staged[Files[i].Hash] = Files[i].Hash
    \/ /\ Files[i].Hash \in DOMAIN DeltaNames(pack)
       /\ pack.deltas[DeltaNames(pack)[Files[i].Hash]].res = "right"
\* C10: staged-or-delta: on a pack whose delta area can be listed, when every
\* present entry at the header version has a matching staged copy or a delta
\* named with its hash that reconstructs that hash, checkDeltaPack accepts
\* (returns nil); in particular an entry whose staged copy does not match is
\* accepted through its correct delta.
C10_StagedOrDelta ==
    (/\ dk_pc = "ret"
     /\ dk_pack.deltaDir
     /\ \A i \in 1..Len(dk_Files) : NeedsCheck(dk_Files[i]) => Acceptable(dk_Files, dk_pack, i))
    => dk_err = DNoErr

(***************************************************************************)
(* CheckDeltaPacks(c, m) ([]string, error): one worker per key of vers,    *)
(* each taking from-versions from the unbuffered vCh; errCh and failCh     *)
(* are buffered with capacity len(vers).  What goes through errCh and      *)
(* failCh is written [v, e]: the error e, and the from-version v whose     *)
(* iteration sent it.                                                      *)
(***************************************************************************)
\* Bound: file entries of m.
MaxDPFiles == 2
\* Bound: names in the listing of a pack's delta directory.
MaxDPDeltas == 1
\* Hashes of the entries of m and last fields of the delta names; the packs
\* a fetch can extract.
DPHashes == {"h1"}
DPPacks == DeltaPacks(DPHashes, DPHashes, MaxDPDeltas)

\* vers: every f.Version of m.Files.
Vers(Files) == {Files[i].Version : i \in 1..Len(Files)}
\* workers := len(vers)
DPWorkers == 1..Cardinality(Vers(dp_Files))

DPInit ==
    /\ dp_Files \in DeltaManifests(DPHashes, MaxDPFiles)
    /\ dp_todo = Vers(dp_Files)
    /\ dp_pc = "send"
    /\ dp_w = [w \in DPWorkers |-> [pc |-> "recv", v |-> 0, dirs |-> {}]]
    /\ dp_st = [v \in Vers(dp_Files) |-> "none"]
    /\ dp_pack = [v \in Vers(dp_Files) |-> NoPack]
    /\ dp_dir = [v \in Vers(dp_Files) |-> FALSE]
    /\ dp_errCh = << >> /\ dp_failCh = << >> /\ dp_done = 0
    /\ dp_err = DNoErr /\ dp_fails = << >>

\* select case vCh <- v, meeting a worker in "for v := range vCh".
DP_Handoff(w, v) ==
    /\ dp_pc = "send" /\ v \in dp_todo /\ dp_w[w].pc = "recv"
    /\ dp_todo' = dp_todo \ {v}
    /\ dp_w' = [dp_w EXCEPT ![w].pc = "tmpdir", ![w].v = v]
    /\ UNCHANGED <<dp_Files, dp_pc, dp_st, dp_pack, dp_dir, dp_errCh, dp_failCh,
                   dp_done, dp_err, dp_fails>>
    /\ Frozen("dp")

\* select case err = <-errCh: the break leaves the select only, and the range
\* goes on with the next key; v is not sent.
DP_RecvErr(v) ==
    /\ dp_pc = "send" /\ v \in dp_todo /\ dp_errCh # << >>
    /\ dp_err' = Head(dp_errCh) /\ dp_errCh' = Tail(dp_errCh)
    /\ dp_todo' = dp_todo \ {v}
    /\ UNCHANGED <<dp_Files, dp_pc, dp_w, dp_st, dp_pack, dp_dir, dp_failCh,
                   dp_done, dp_fails>>
    /\ Frozen("dp")

\* close(vCh) after the range over vers.
DP_CloseVCh ==
    /\ dp_pc = "send" /\ dp_todo = {}
    /\ dp_pc' = "wait"
    /\ UNCHANGED <<dp_Files, dp_todo, dp_w, dp_st, dp_pack, dp_dir, dp_errCh,
                   dp_failCh, dp_done, dp_err, dp_fails>>
    /\ Frozen("dp")

\* ioutil.TempDir; on error errCh <- err and break, else the removal of
\* tmpDir is deferred to the end of the worker.
DP_TempDir(w) ==
    /\ dp_w[w].pc = "tmpdir"
    /\ \E ok \in BOOLEAN :
          IF ok
          THEN /\ dp_dir' = [dp_dir EXCEPT ![dp_w[w].v] = TRUE]
               /\ dp_w' = [dp_w EXCEPT ![w].pc = "fetch", ![w].dirs = @ \cup {dp_w[w].v}]
               /\ UNCHANGED <<dp_errCh, dp_st>>
          ELSE /\ Len(dp_errCh) < Cardinality(DPWorkers)
               /\ dp_errCh' = Append(dp_errCh, [v |-> dp_w[w].v, e |-> DErr("tempdir", 0, "")])
               /\ dp_st' = [dp_st EXCEPT ![dp_w[w].v] = "tmpfail"]
               /\ dp_w' = [dp_w EXCEPT ![w].pc = "exit"]
               /\ UNCHANGED dp_dir
    /\ UNCHANGED <<dp_Files, dp_todo, dp_pc, dp_pack, dp_failCh, dp_done, dp_err, dp_fails>>
    /\ Frozen("dp")

\* As NoDeltaPack, but the failed fetch is reported like a failed check.
NoDeltaPack_RecordsFailure(w, v) ==
    /\ dp_dir' = [dp_dir EXCEPT ![v] = FALSE]
    /\ dp_st' = [dp_st EXCEPT ![v] = "nofetch"]
    /\ dp_failCh' = Append(dp_failCh, [v |-> v, e |-> DErr("fetch", 0, "")])
    /\ dp_w' = [dp_w EXCEPT ![w].pc = "exit"]
    /\ UNCHANGED dp_pack
\* TarExtractURL of pack-<name>-from-<v>.tar failed: "assume no delta pack",
\* os.RemoveAll(tmpDir), continue.
NoDeltaPack(w, v) ==
    /\ dp_dir' = [dp_dir EXCEPT ![v] = FALSE]
    /\ dp_st' = [dp_st EXCEPT ![v] = "nofetch"]
    /\ dp_w' = [dp_w EXCEPT ![w].pc = "recv"]
    /\ UNCHANGED <<dp_pack, dp_failCh>>

\* helpers.TarExtractURL of the delta pack from v into tmpDir.
DP_Fetch(w) ==
    /\ dp_w[w].pc = "fetch"
    /\ \/ NoDeltaPack(w, dp_w[w].v)
       \/ \E p \in DPPacks :
             /\ dp_pack' = [dp_pack EXCEPT ![dp_w[w].v] = p]
             /\ dp_st' = [dp_st EXCEPT ![dp_w[w].v] = "fetched"]
             /\ dp_w' = [dp_w EXCEPT ![w].pc = "check"]
             /\ UNCHANGED <<dp_dir, dp_failCh>>
    /\ UNCHANGED <<dp_Files, dp_todo, dp_pc, dp_errCh, dp_done, dp_err, dp_fails>>
    /\ Frozen("dp")

\* err = checkDeltaPack(c, tmpDir, m); on error failCh <- err.Error() and
\* break.
DP_Check(w) ==
    /\ dp_w[w].pc = "check"
    /\ \E e \in checkDeltaPack(dp_Files, dp_pack[dp_w[w].v]) :
          IF e = DNoErr
          THEN /\ dp_st' = [dp_st EXCEPT ![dp_w[w].v] = "ok"]
               /\ dp_w' = [dp_w EXCEPT ![w].pc = "recv"]
               /\ UNCHANGED dp_failCh
          ELSE /\ Len(dp_failCh) < Cardinality(DPWorkers)
               /\ dp_failCh' = Append(dp_failCh, [v |-> dp_w[w].v, e |-> e])
               /\ dp_st' = [dp_st EXCEPT ![dp_w[w].v] = "failed"]
               /\ dp_w' = [dp_w EXCEPT ![w].pc = "exit"]
    /\ UNCHANGED <<dp_Files, dp_todo, dp_pc, dp_pack, dp_dir, dp_errCh, dp_done,
                   dp_err, dp_fails>>
    /\ Frozen("dp")

\* The worker's function ends, after a break or on the closed vCh: the
\* deferred os.RemoveAll calls run, then wg.Done().
DP_WorkerExit(w) ==
    /\ \/ dp_w[w].pc = "exit"
       \/ dp_w[w].pc = "recv" /\ dp_pc = "wait"
    /\ dp_dir' = [v \in DOMAIN dp_dir |-> IF v \in dp_w[w].dirs THEN FALSE ELSE dp_dir[v]]
    /\ dp_w' = [dp_w EXCEPT ![w].pc = "gone"]
    /\ dp_done' = dp_done + 1
    /\ UNCHANGED <<dp_Files, dp_todo, dp_pc, dp_st, dp_pack, dp_errCh, dp_failCh,
                   dp_err, dp_fails>>
    /\ Frozen("dp")

\* wg.Wait() returns; err is taken from errCh if still nil, both channels
\* are emptied, and fails is what failCh held.
DP_Wait ==
    /\ dp_pc = "wait" /\ dp_done = Cardinality(DPWorkers)
    /\ dp_err' = IF dp_err = DNoErr /\ Len(dp_errCh) > 0 THEN Head(dp_errCh) ELSE dp_err
    /\ dp_errCh' = << >>
    /\ dp_fails' = dp_failCh /\ dp_failCh' = << >>
    /\ dp_pc' = "done"
    /\ UNCHANGED <<dp_Files, dp_todo, dp_w, dp_st, dp_pack, dp_dir, dp_done>>
    /\ Frozen("dp")

DPNext ==
    \/ \E w \in DPWorkers, v \in Versions : DP_Handoff(w, v)
    \/ \E v \in Versions : DP_RecvErr(v)
    \/ DP_CloseVCh
    \/ \E w \in DPWorkers : DP_TempDir(w)
    \/ \E w \in DPWorkers : DP_Fetch(w)
    \/ \E w \in DPWorkers : DP_Check(w)
    \/ \E w \in DPWorkers : DP_WorkerExit(w)
    \/ DP_Wait
InitDP == DPInit /\ IdleBut("dp")
SpecDP == InitDP /\ [][DPNext]_vars


\* What is recorded for from-version v: on the channels, in the caller's err
\* and in the returned fails.
DPRecorded(v) ==
    {k \in 1..Len(dp_errCh) : dp_errCh[k].v = v} # {}
    \/ {k \in 1..Len(dp_failCh) : dp_failCh[k].v = v} # {}
    \/ {k \in 1..Len(dp_fails) : dp_fails[k].v = v} # {}
    \/ (dp_err # DNoErr /\ dp_err.v = v)
DPNoFetch == {v \in Vers(dp_Files) : dp_st[v] = "nofetch"}

DPChecked == {v \in Vers(dp_Files) : dp_st[v] \in {"ok", "failed"}}
\* The case of C9 at return: the pack from v is the only one that could be
\* fetched, entry i is present at the header version with no staged copy in
\* it, and the pack holds a delta named with the hash of entry i.
C9_Case(v, i) ==
    /\ dp_pc = "done"
    /\ DPChecked = {v} /\ DPNoFetch = Vers(dp_Files) \ {v}
    /\ NeedsCheck(dp_Files[i])
    /\ dp_pack[v].staged[dp_Files[i].Hash] = NoFile
    /\ dp_Files[i].Hash \in DOMAIN DeltaNames(dp_pack[v])
\* The delta of that case: its position in the listing, and its record.
C9_DeltaOf(v, i) == DeltaNames(dp_pack[v])[dp_Files[i].Hash]
\* C9: delta reconstruction.  In that case, with every other entry of the
\* manifest acceptable on the pack, CheckDeltaPacks reports success (no
\* failure, nil error) iff the patched output hashes to the entry's hash; and
\* when the patch is corrupted (bspatch fails or the output hashes to
\* something else) it returns exactly one failure, from that pack, whose text
\* names that delta file.
C9_DeltaReconstruction ==
    \A v \in Vers(dp_Files), i \in 1..Len(dp_Files) :
        C9_Case(v, i) =>
            LET k == C9_DeltaOf(v, i)
                res == dp_pack[v].deltas[k].res
                others == \A j \in 1..Len(dp_Files) :
                              (NeedsCheck(dp_Files[j]) /\ dp_Files[j].Hash # dp_Files[i].Hash)
                                  => Acceptable(dp_Files, dp_pack[v], j)
            IN  /\ others => ((dp_fails = << >> /\ dp_err = DNoErr) <=> res = "right")
                /\ (others /\ res \in {"patchfail", "wrong"}) =>
                       /\ Len(dp_fails) = 1 /\ dp_fails[1].v = v
                       /\ NamesDelta(dp_fails[1].e) /\ dp_fails[1].e.entry = k
\* C9 witness: two candidates, one pack fetched; its delta for the entry
\* produces a wrong hash and the one returned failure names it.
C9_Witness ==
    \E v \in Vers(dp_Files), i \in 1..Len(dp_Files) :
        /\ C9_Case(v, i)
        /\ Cardinality(Vers(dp_Files)) = 2
        /\ dp_pack[v].deltas[C9_DeltaOf(v, i)].res = "wrong"
        /\ Len(dp_fails) = 1 /\ dp_fails[1].e.kind = "wronghash"
\* C9, success side reached: the delta reconstructs the hash and nothing is
\* reported.
C9_WitnessRight ==
    \E v \in Vers(dp_Files), i \in 1..Len(dp_Files) :
        /\ C9_Case(v, i)
        /\ dp_pack[v].deltas[C9_DeltaOf(v, i)].res = "right"
        /\ dp_fails = << >>


\* The hashes of the present header-version entries that are defective on the
\* pack: the staged copy hashes to something else, or there is no staged
\* copy and the delta for the hash is missing or cannot be applied to give it.
DKDefects ==
    {dk_Files[i].Hash : i \in {j \in 1..Len(dk_Files) :
        /\ NeedsCheck(dk_Files[j])
        /\ \/ dk_pack.staged[dk_Files[j].Hash] \notin {NoFile, dk_Files[j].Hash}
           \/ /\ dk_pack.staged[dk_Files[j].Hash] = NoFile
              /\ DeltaErr(dk_Files[j].Hash, dk_pack) # DNoErr}}
\* The number of defects the returned error reports.
DKReported == IF dk_err = DNoErr THEN 0 ELSE 1

\* C11: collect, never abort inside one delta pack: on a pack whose delta
\* area can be listed, the outcome of checkDeltaPack for a pack with k
\* defective entries reports all k of them.
C11_ReportsEveryDefect ==
    (dk_pc = "ret" /\ dk_pack.deltaDir) => DKReported = Cardinality(DKDefects)

\* C12: reconstruction failures name the delta: when checkDeltaPack fails on
\* an existing delta file because its source cannot be fetched, bspatch
\* fails, or the patched result has another hash, the text of the returned
\* failure names that delta file.
C12_ReconstructionFailureNamesDelta ==
    (dk_pc = "ret" /\ dk_err.kind \in {"srcfetch", "bspatch", "wronghash"})
        => NamesDelta(dk_err)

\* The entries of C13: present at the header version, no staged copy, and no
\* four-field name of the delta listing ends in the entry's hash.
DKMissingPatch ==
    {i \in 1..Len(dk_Files) :
        /\ NeedsCheck(dk_Files[i])
        /\ dk_pack.staged[dk_Files[i].Hash] = NoFile
        /\ dk_Files[i].Hash \notin DOMAIN DeltaNames(dk_pack)}
\* C13: a missing patch is a failure: with such an entry checkDeltaPack never
\* returns nil; and when the delta area can be listed and no other hash is
\* defective, the failure is "could not find <hash> in delta pack".
C13_MissingPatchFails ==
    (dk_pc = "ret" /\ DKMissingPatch # {}) =>
        /\ dk_err # DNoErr
        /\ (dk_pack.deltaDir /\ Cardinality(DKDefects) = 1) =>
              \E i \in DKMissingPatch : dk_err = DErr("nodelta", 0, dk_Files[i].Hash)
\* C13 witness: the check returned "could not find" for the entry's hash on a
\* pack that holds a delta for another hash only.
C13_Witness ==
    /\ dk_pc = "ret" /\ DKMissingPatch # {}
    /\ dk_err.kind = "nodelta"
    /\ Len(dk_pack.deltas) > 0

(***************************************************************************)
(* runUCCheck and UCCheck(version, recursive) (cmd/updatecontent.go).      *)
(* The four stages run one after the other over the same MoM.  A           *)
(* sub-manifest is described by its version and by the one kind of defect  *)
(* it has: "hash" (its hash differs from the MoM's), "parse" (it does not  *)
(* parse), "files" (a blob at or above the floor is missing or wrong),     *)
(* "zero" / "delta" (its zero pack / a delta pack fails its check).        *)
(***************************************************************************)
\* Bound: entries of the MoM in the orchestrator.
MaxUCEntries == 2
UCDefects == {"none", "hash", "parse", "files", "zero", "delta"}
UCStages == <<"manifests", "files", "zero", "delta">>
UCStageNo(s) == CHOOSE k \in 1..4 : UCStages[k] = s
\* The result names UCCheck gives to r.Add.
UCStageName(s) ==
    IF s = "manifests" THEN "Manifest hashes" ELSE IF s = "files" THEN "File hashes"
    ELSE IF s = "zero" THEN "Zero packs" ELSE "Delta packs"

\* u.MinVer: left 0 when recursive, else the version.
UCMinVer == IF uc_recursive THEN 0 ELSE uc_version
\* Entries the stages do not skip: uint(Version) < minVer is false.
UCAtOrAbove == {i \in 1..Len(uc_MoM) : uc_MoM[i].Version >= UCMinVer}

UCInit ==
    /\ uc_version \in Versions /\ uc_recursive \in BOOLEAN
    /\ uc_fetchOK \in BOOLEAN /\ uc_printOK \in BOOLEAN /\ uc_momParses \in BOOLEAN
    /\ uc_MoM \in SeqsUpTo([Version : {v \in Versions : v <= uc_version}, defect : UCDefects],
                           MaxUCEntries)
    /\ uc_pc = "fetch" /\ uc_i = 0 /\ uc_blocked = 0 /\ uc_errs = << >>
    /\ uc_picked = [s \in {UCStages[k] : k \in 1..4} |-> {}] /\ uc_bfhCalled = {}
    /\ uc_ran = << >> /\ uc_nerrs = 0 /\ uc_r = NewResults /\ uc_status = -1

\* diva.FetchUpdate, diva.FetchUpdateFiles; on error UCCheck returns (r, err).
UC_Fetch ==
    /\ uc_pc = "fetch"
    /\ uc_pc' = IF uc_fetchOK THEN "manifests" ELSE "ret"
    /\ UNCHANGED <<uc_version, uc_recursive, uc_fetchOK, uc_printOK, uc_momParses, uc_MoM,
                   uc_i, uc_blocked, uc_errs, uc_picked, uc_bfhCalled, uc_ran, uc_nerrs, uc_r,
                   uc_status>>
    /\ Frozen("uc")

\* The stage after s, or the return of UCCheck.
UCAfter(s) == IF s = "delta" THEN "ret" ELSE UCStages[UCStageNo(s) + 1]
\* errs of the stage is in hand: one r.Add per error, or one passing r.Add.
UCReport(s, errs) ==
    /\ uc_r' = ReportStage(uc_r, UCStageName(s), errs)
    /\ uc_nerrs' = uc_nerrs + Len(errs)
    /\ uc_ran' = Append(uc_ran, s)
    /\ uc_pc' = UCAfter(s)
    /\ uc_i' = 0 /\ uc_errs' = << >>

RECURSIVE UCHashErrs(_)
\* CheckManifestHashes over the first n entries: one error per entry at or
\* above minVer whose manifest hash cannot be computed or differs.
UCHashErrs(n) ==
    IF n = 0 THEN << >>
    ELSE IF n \in UCAtOrAbove /\ uc_MoM[n].defect = "hash"
         THEN Append(UCHashErrs(n - 1), [kind |-> "hash", entry |-> n])
         ELSE UCHashErrs(n - 1)

\* errs := updatecontent.CheckManifestHashes(conf, version, u.MinVer) and its
\* report.
UC_ManifestHashes ==
    /\ uc_pc = "manifests"
    /\ IF uc_momParses
       THEN /\ UCReport("manifests", UCHashErrs(Len(uc_MoM)))
            /\ uc_picked' = [uc_picked EXCEPT !["manifests"] = UCAtOrAbove]
       ELSE /\ UCReport("manifests", <<[kind |-> "parse", entry |-> 0]>>)
            /\ UNCHANGED uc_picked
    /\ UNCHANGED <<uc_version, uc_recursive, uc_fetchOK, uc_printOK, uc_momParses, uc_MoM,
                   uc_blocked, uc_bfhCalled, uc_status>>
    /\ Frozen("uc")

\* Workers of a concurrent stage: len(MoM.Files) in CheckFileHashes, 4 in
\* CheckPacks.
UCStageWorkers(s) == IF s = "files" THEN Len(uc_MoM) ELSE cpWorkers
\* What stops the worker that took entry e in stage s for ever: in
\* CheckFileHashes, checkBundleFileHashes sending to its unbuffered eCh while
\* its caller is in wg.Wait(); in CheckPacks, the send to the unbuffered eCh
\* of a parse error or of an error of the pack check.
UCBlocks(s, e) ==
    \/ s = "files" /\ e.defect = "files"
    \/ s = "zero" /\ e.defect \in {"parse", "zero"}
    \/ s = "delta" /\ e.defect \in {"parse", "delta"}

\* fChan <- MoM.Files[i] / bCh <- b, and the worker's loop body for the entry.
\* In CheckFileHashes a parse error goes to the buffered errChan and the
\* worker calls checkBundleFileHashes on the manifest ParseManifestFile
\* returned with its error: a nil manifest panics at m.Files, an empty one
\* gives no further error.
UC_Handoff ==
    /\ uc_pc \in {"files", "zero", "delta"} /\ uc_momParses
    /\ uc_i < Len(uc_MoM) /\ uc_blocked < UCStageWorkers(uc_pc)
    /\ uc_i' = uc_i + 1
    /\ LET e == uc_MoM[uc_i + 1]
       IN  IF e.Version < UCMinVer
           THEN UNCHANGED <<uc_pc, uc_blocked, uc_errs, uc_picked, uc_bfhCalled, uc_status>>
           ELSE /\ uc_picked' = [uc_picked EXCEPT ![uc_pc] = @ \cup {uc_i + 1}]
                /\ uc_bfhCalled' = IF uc_pc = "files" THEN uc_bfhCalled \cup {uc_i + 1}
                                   ELSE uc_bfhCalled
                /\ uc_blocked' = uc_blocked + (IF UCBlocks(uc_pc, e) THEN 1 ELSE 0)
                /\ IF uc_pc = "files" /\ e.defect = "parse"
                   THEN /\ uc_errs' = Append(uc_errs, [kind |-> "parse", entry |-> uc_i + 1])
                        /\ \/ uc_pc' = "panic" /\ uc_status' = 2
                           \/ UNCHANGED <<uc_pc, uc_status>>
                   ELSE UNCHANGED <<uc_pc, uc_errs, uc_status>>
    /\ UNCHANGED <<uc_version, uc_recursive, uc_fetchOK, uc_printOK, uc_momParses, uc_MoM,
                   uc_ran, uc_nerrs, uc_r>>
    /\ Frozen("uc")

\* The stage returns: at once with the parse error of the MoM, else after
\* close of the work channel and wg.Wait(), which needs every worker to have
\* left its loop; errs is what the buffered errChan holds.
UC_StageReturn ==
    /\ uc_pc \in {"files", "zero", "delta"}
    /\ IF uc_momParses
       THEN /\ uc_i = Len(uc_MoM) /\ uc_blocked = 0
            /\ UCReport(uc_pc, uc_errs)
       ELSE UCReport(uc_pc, <<[kind |-> "parse", entry |-> 0]>>)
    /\ UNCHANGED <<uc_version, uc_recursive, uc_fetchOK, uc_printOK, uc_momParses, uc_MoM,
                   uc_blocked, uc_picked, uc_bfhCalled, uc_status>>
    /\ Frozen("uc")

\* helpers.Fail(err): print the error and leave with an error code, as
\* FailIfErr does.
Fail == 1
\* runUCCheck after UCCheck returned: Fail on its error, Print (Fail on its
\* error), os.Exit(1) when results.Failed > 0.
UC_Exit ==
    /\ uc_pc = "ret"
    /\ uc_pc' = "exit"
    /\ uc_status' = IF ~uc_fetchOK THEN Fail
                    ELSE IF ~uc_printOK THEN Fail
                    ELSE IF uc_r.Failed > 0 THEN 1 ELSE 0
    /\ UNCHANGED <<uc_version, uc_recursive, uc_fetchOK, uc_printOK, uc_momParses, uc_MoM,
                   uc_i, uc_blocked, uc_errs, uc_picked, uc_bfhCalled, uc_ran, uc_nerrs, uc_r>>
    /\ Frozen("uc")

UCNext ==
    \/ UC_Fetch
    \/ UC_ManifestHashes
    \/ UC_Handoff
    \/ UC_StageReturn
    \/ UC_Exit
InitUC == UCInit /\ IdleBut("uc")
SpecUC == InitUC /\ [][UCNext]_vars
\* Every goroutine that can take a step eventually does.
FairSpecUC == SpecUC /\ WF_vars(UCNext)


UCStageSet == {UCStages[k] : k \in 1..4}
\* C14: floor semantics: the floor is 0 when recursive and the version
\* otherwise; no stage goes on with a MoM entry below the floor; and, once
\* fetching succeeded on a MoM that parses, every stage comes to pick up
\* every entry at or above the floor.
C14_FloorSemantics ==
    /\ [](\A s \in UCStageSet : uc_picked[s] \subseteq UCAtOrAbove)
    /\ (uc_pc = "manifests" /\ uc_momParses) ~> (\A s \in UCStageSet : uc_picked[s] = UCAtOrAbove)

\* C15 as stated: at the end of a run of runUCCheck in which UCCheck
\* returned, Results.Failed is the number of errors the stages returned and
\* the exit status is non-zero iff a stage returned an error or UCCheck
\* returned an error.
C15_ExitStatus ==
    uc_pc = "exit" =>
        /\ uc_r.Failed = uc_nerrs
        /\ uc_status # 0 <=> (uc_nerrs > 0 \/ ~uc_fetchOK)
\* C15 amended: the same, where the exit status is also non-zero when
\* printing the results fails.
C15_ExitStatusAmended ==
    uc_pc = "exit" =>
        /\ uc_r.Failed = uc_nerrs
        /\ uc_status # 0 <=> (uc_nerrs > 0 \/ ~uc_fetchOK \/ ~uc_printOK)
\* C15 witness: all four stages returned, two errors in all, two failed
\* results, exit status 1.
C15_Witness ==
    /\ uc_pc = "exit" /\ uc_ran = UCStages /\ uc_momParses
    /\ uc_nerrs = 2 /\ uc_r.Failed = 2 /\ uc_status = 1

\* C16: the stages return in the fixed order, and once fetching succeeded all
\* four stages run, whatever the earlier stages found.
C16_AllStagesRun ==
    /\ [](\E k \in 0..4 : uc_ran = SubSeq(UCStages, 1, k))
    /\ (uc_pc = "manifests") ~> (uc_ran = UCStages)

(***************************************************************************)
(* UCCheck(m) with the stages that record into a shared *diva.Results:     *)
(* CheckManifestHashes(r, ...) error, CheckFileHashes(r, ...) error and    *)
(* CheckPacks(r, ..., delta) error.  A sub-manifest is described by its    *)
(* version and the one kind of defect it has.  Results.Ok is               *)
(* `r.Passed++` or `r.Failed++` followed by r.T.Ok; it takes no lock, so   *)
(* the increment is a read and a later write.  Goroutines of one stage are *)
(* interchangeable: a value sent on the work channel is taken by the       *)
(* lowest-numbered worker that is receiving.                               *)
(***************************************************************************)
\* Bound: entries of the MoM.
MaxTapEntries == 2
\* "mhash": the manifest's hash differs from the MoM's; "mmissing": it cannot
\* be hashed; "parse": it does not parse; "blobmissing" / "blobmismatch": a
\* present file at or above the floor has no blob / a blob with another
\* hash; "zerofail" / "deltafail": the pack check returns failures;
\* "zeroerr" / "deltaerr": it returns an error.
TapDefects == {"none", "mhash", "mmissing", "parse", "blobmissing", "blobmismatch",
               "zerofail", "zeroerr", "deltafail", "deltaerr"}
TapFloors == {0, 2}

TPAtOrAbove == {k \in 1..Len(tp_MoM) : tp_MoM[k].Version >= tp_minVer}
TPWorkerIdle == [pc |-> "recv", e |-> 0, test |-> TRUE, load |-> 0]

TPInit ==
    /\ tp_MoM \in SeqsUpTo([Version : Versions, defect : TapDefects], MaxTapEntries)
    /\ tp_momParses \in BOOLEAN /\ tp_minVer \in TapFloors
    /\ tp_pc = "manifests" /\ tp_ppc = "sel" /\ tp_i = 0 /\ tp_w = << >>
    /\ tp_errCh = << >> /\ tp_err = NoErr
    /\ tp_r = [Passed |-> 0, Failed |-> 0] /\ tp_out = << >> /\ tp_calls = 0
    /\ tp_ran = <<"manifests">>

\* UCCheck: `if err != nil { return r, err }`, else the next stage is called:
\* it starts its workers (len(MoM.Files) in CheckFileHashes, 4 in CheckPacks)
\* unless the MoM does not parse.
TPAfterStage(err) ==
    LET next == IF tp_pc = "manifests" THEN "files" ELSE IF tp_pc = "files" THEN "zero"
                ELSE IF tp_pc = "zero" THEN "delta" ELSE "ret"
    IN  /\ tp_i' = 0 /\ tp_errCh' = << >>
        /\ IF err # NoErr \/ next = "ret"
           THEN tp_pc' = "ret" /\ tp_err' = err /\ UNCHANGED <<tp_ppc, tp_w, tp_ran>>
           ELSE /\ tp_pc' = next /\ tp_err' = NoErr
                /\ tp_ppc' = IF next = "files" THEN "send1" ELSE "sel"
                /\ tp_w' = [w \in 1..(IF next = "files" THEN Len(tp_MoM) ELSE cpWorkers) |->
                               TPWorkerIdle]
                /\ tp_ran' = Append(tp_ran, next)

\* Results.Ok(test, desc) run by one goroutine while no other runs.
TPOk(r, test) == IF test THEN [r EXCEPT !.Passed = @ + 1] ELSE [r EXCEPT !.Failed = @ + 1]
TPLine(kind, stage, e) == [kind |-> kind, stage |-> stage, e |-> e]

\* CheckManifestHashes: the MoM parse error, or one iteration of its loop: an
\* entry below minVer is passed over, a Hashcalc error is returned, else
\* r.Ok(hash == MoM.Files[i].Hash, desc); after the last entry return nil.
TP_ManifestHashes ==
    /\ tp_pc = "manifests"
    /\ IF ~tp_momParses
       THEN TPAfterStage([kind |-> "parse", entry |-> 0]) /\ UNCHANGED <<tp_r, tp_out, tp_calls>>
       ELSE IF tp_i = Len(tp_MoM)
       THEN TPAfterStage(NoErr) /\ UNCHANGED <<tp_r, tp_out, tp_calls>>
       ELSE IF tp_MoM[tp_i + 1].Version < tp_minVer
       THEN /\ tp_i' = tp_i + 1
            /\ UNCHANGED <<tp_pc, tp_ppc, tp_w, tp_errCh, tp_err, tp_r, tp_out, tp_calls, tp_ran>>
       ELSE IF tp_MoM[tp_i + 1].defect = "mmissing"
       THEN /\ TPAfterStage([kind |-> "hashcalc", entry |-> tp_i + 1])
            /\ UNCHANGED <<tp_r, tp_out, tp_calls>>
       ELSE /\ tp_i' = tp_i + 1
            /\ tp_r' = TPOk(tp_r, tp_MoM[tp_i + 1].defect # "mhash")
            /\ tp_calls' = tp_calls + 1
            /\ tp_out' = Append(tp_out, TPLine(IF tp_MoM[tp_i + 1].defect # "mhash"
                                               THEN "ok" ELSE "not ok", "manifests", tp_i + 1))
            /\ UNCHANGED <<tp_pc, tp_ppc, tp_w, tp_errCh, tp_err, tp_ran>>
    /\ UNCHANGED <<tp_MoM, tp_momParses, tp_minVer>>
    /\ Frozen("tp")

\* What a worker of the stage finds for an entry at or above minVer: an
\* error (sent to the error channel, then break), failures, or none.
\* checkBundleFileHashes returns an error when a blob cannot be hashed and
\* the names of the mismatching files otherwise.
TPOutcome(stage, d) ==
    IF d = "parse" THEN "err"
    ELSE IF stage = "files" THEN (IF d = "blobmissing" THEN "err"
                                  ELSE IF d = "blobmismatch" THEN "fail" ELSE "pass")
    ELSE IF stage = "zero" THEN (IF d = "zeroerr" THEN "err"
                                 ELSE IF d = "zerofail" THEN "fail" ELSE "pass")
    ELSE (IF d = "deltaerr" THEN "err" ELSE IF d = "deltafail" THEN "fail" ELSE "pass")

TPReceivers == {w \in DOMAIN tp_w : tp_w[w].pc = "recv"}
\* Entry k goes through the work channel to a receiving worker, which runs its
\* loop body up to the send of an error or to the call of r.Ok.
TPDeliver(k) ==
    /\ TPReceivers # {}
    /\ LET w == CHOOSE x \in TPReceivers : \A y \in TPReceivers : x <= y
           o == TPOutcome(tp_pc, tp_MoM[k].defect)
       IN  IF tp_MoM[k].Version < tp_minVer THEN UNCHANGED <<tp_w, tp_errCh>>
           ELSE IF o = "err"
           THEN /\ tp_errCh' = Append(tp_errCh, [kind |-> tp_MoM[k].defect, entry |-> k])
                /\ tp_w' = [tp_w EXCEPT ![w].pc = "gone"]
           ELSE /\ tp_w' = [tp_w EXCEPT ![w] = [pc |-> "okread", e |-> k,
                                                test |-> (o = "pass"), load |-> 0]]
                /\ UNCHANGED tp_errCh

\* CheckFileHashes: the plain `fChan <- MoM.Files[i]` before the select.
TP_Send1 ==
    /\ tp_pc = "files" /\ tp_momParses /\ tp_ppc = "send1" /\ tp_i < Len(tp_MoM)
    /\ TPDeliver(tp_i + 1)
    /\ tp_ppc' = "sel"
    /\ UNCHANGED <<tp_MoM, tp_momParses, tp_minVer, tp_pc, tp_i, tp_err, tp_r, tp_out,
                   tp_calls, tp_ran>>
    /\ Frozen("tp")

\* select case fChan <- MoM.Files[i] / case bCh <- b.
TP_SelectSend ==
    /\ tp_pc \in {"files", "zero", "delta"} /\ tp_momParses
    /\ tp_ppc = "sel" /\ tp_i < Len(tp_MoM)
    /\ TPDeliver(tp_i + 1)
    /\ tp_i' = tp_i + 1
    /\ tp_ppc' = IF tp_pc = "files" THEN "send1" ELSE "sel"
    /\ UNCHANGED <<tp_MoM, tp_momParses, tp_minVer, tp_pc, tp_err, tp_r, tp_out,
                   tp_calls, tp_ran>>
    /\ Frozen("tp")

\* select case err = <-errChan: the break leaves the select, the loop goes on
\* with the next entry.
TP_SelectErr ==
    /\ tp_pc \in {"files", "zero", "delta"} /\ tp_momParses
    /\ tp_ppc = "sel" /\ tp_i < Len(tp_MoM) /\ tp_errCh # << >>
    /\ tp_err' = Head(tp_errCh) /\ tp_errCh' = Tail(tp_errCh)
    /\ tp_i' = tp_i + 1
    /\ tp_ppc' = IF tp_pc = "files" THEN "send1" ELSE "sel"
    /\ UNCHANGED <<tp_MoM, tp_momParses, tp_minVer, tp_pc, tp_w, tp_r, tp_out,
                   tp_calls, tp_ran>>
    /\ Frozen("tp")

\* Results.Ok, first half: the worker reads r.Passed or r.Failed.
TP_OkRead(w) ==
    /\ tp_w[w].pc = "okread"
    /\ tp_w' = [tp_w EXCEPT ![w].pc = "okwrite",
                            ![w].load = IF tp_w[w].test THEN tp_r.Passed ELSE tp_r.Failed]
    /\ tp_calls' = tp_calls + 1
    /\ UNCHANGED <<tp_MoM, tp_momParses, tp_minVer, tp_pc, tp_ppc, tp_i, tp_errCh, tp_err,
                   tp_r, tp_out, tp_ran>>
    /\ Frozen("tp")

\* Results.Ok, second half: the worker writes the incremented value back and
\* r.T.Ok prints the line.
TP_OkWrite(w) ==
    /\ tp_w[w].pc = "okwrite"
    /\ tp_r' = IF tp_w[w].test THEN [tp_r EXCEPT !.Passed = tp_w[w].load + 1]
               ELSE [tp_r EXCEPT !.Failed = tp_w[w].load + 1]
    /\ tp_out' = Append(tp_out, TPLine(IF tp_w[w].test THEN "ok" ELSE "not ok", tp_pc, tp_w[w].e))
    /\ tp_w' = [tp_w EXCEPT ![w].pc = IF tp_w[w].test THEN "recv" ELSE "diag"]
    /\ UNCHANGED <<tp_MoM, tp_momParses, tp_minVer, tp_pc, tp_ppc, tp_i, tp_errCh, tp_err,
                   tp_calls, tp_ran>>
    /\ Frozen("tp")

\* if len(failures) > 0 { r.Diagnostic(...) }
TP_Diagnostic(w) ==
    /\ tp_w[w].pc = "diag"
    /\ tp_out' = Append(tp_out, TPLine("diag", tp_pc, tp_w[w].e))
    /\ tp_w' = [tp_w EXCEPT ![w].pc = "recv"]
    /\ UNCHANGED <<tp_MoM, tp_momParses, tp_minVer, tp_pc, tp_ppc, tp_i, tp_errCh, tp_err,
                   tp_r, tp_calls, tp_ran>>
    /\ Frozen("tp")

\* The stage returns: the MoM parse error at once; else close of the work
\* channel, wg.Wait() (every worker has left its loop), err taken from the
\* error channel if still nil.
TP_StageReturn ==
    /\ tp_pc \in {"files", "zero", "delta"}
    /\ IF ~tp_momParses THEN TPAfterStage([kind |-> "parse", entry |-> 0])
       ELSE /\ tp_i = Len(tp_MoM)
            /\ \A w \in DOMAIN tp_w : tp_w[w].pc \in {"recv", "gone"}
            /\ TPAfterStage(IF tp_err = NoErr /\ tp_errCh # << >> THEN Head(tp_errCh) ELSE tp_err)
    /\ UNCHANGED <<tp_MoM, tp_momParses, tp_minVer, tp_r, tp_out, tp_calls>>
    /\ Frozen("tp")

TPNext ==
    \/ TP_ManifestHashes
    \/ TP_Send1
    \/ TP_SelectSend
    \/ TP_SelectErr
    \/ \E w \in DOMAIN tp_w : TP_OkRead(w)
    \/ \E w \in DOMAIN tp_w : TP_OkWrite(w)
    \/ \E w \in DOMAIN tp_w : TP_Diagnostic(w)
    \/ TP_StageReturn
InitTP == TPInit /\ IdleBut("tp")
SpecTP == InitTP /\ [][TPNext]_vars


TPRan(s) == \E k \in 1..Len(tp_ran) : tp_ran[k] = s
\* The result lines (not diagnostics) a stage wrote.
TPResults(s) == {j \in 1..Len(tp_out) : tp_out[j].stage = s /\ tp_out[j].kind # "diag"}

\* C17: no short-circuit in the TAP orchestrator: when UCCheck returns on a
\* MoM that parses and the file-hash stage was run, both CheckPacks stages
\* were run as well, whatever the file-hash stage met.
C17_NoShortCircuit ==
    (tp_pc = "ret" /\ tp_momParses /\ TPRan("files")) => (TPRan("zero") /\ TPRan("delta"))

\* C18: exclusive access to the shared result: when UCCheck returns,
\* Passed + Failed is the number of r.Ok calls made, and every diagnostic
\* line comes directly after the "not ok" line of the same bundle and stage.
C18_ExclusiveResults ==
    tp_pc = "ret" =>
        /\ tp_r.Passed + tp_r.Failed = tp_calls
        /\ \A j \in 1..Len(tp_out) :
              tp_out[j].kind = "diag" =>
                  /\ j > 1
                  /\ tp_out[j - 1] = TPLine("not ok", tp_out[j].stage, tp_out[j].e)

\* C19: one result per sub-manifest: once CheckFileHashes has returned nil
\* (no worker reported an error), it has recorded as many results as there
\* are MoM entries at or above the floor, one for each.
C19_OneResultPerSubManifest ==
    TPRan("zero") =>
        /\ Cardinality(TPResults("files")) = Cardinality(TPAtOrAbove)
        /\ \A k \in 1..Len(tp_MoM) :
              Cardinality({j \in TPResults("files") : tp_out[j].e = k})
                  = (IF k \in TPAtOrAbove THEN 1 ELSE 0)

\* C20: a missing blob is a failed check, not an abort: when UCCheck returns
\* after the file-hash stage was run, every sub-manifest at or above the
\* floor with a missing blob has a failed result of that stage, and the
\* error UCCheck returns is not the missing blob.
C20_MissingBlobIsFailedCheck ==
    (tp_pc = "ret" /\ TPRan("files")) =>
        \A k \in TPAtOrAbove :
            tp_MoM[k].defect = "blobmissing" =>
                /\ \E j \in TPResults("files") : tp_out[j] = TPLine("not ok", "files", k)
                /\ tp_err.kind # "blobmissing"


\* C21: in CheckFileHashes a sub-manifest that cannot be parsed is only
\* recorded and skipped: checkBundleFileHashes is never called for it, and
\* when the stage has returned every other entry at or above the floor has
\* been given to checkBundleFileHashes.
C21_SkipsOnlyUnparsed ==
    /\ \A i \in uc_bfhCalled : uc_MoM[i].defect # "parse"
    /\ ("files" \in {uc_ran[k] : k \in 1..Len(uc_ran)} /\ uc_momParses)
           => {i \in UCAtOrAbove : uc_MoM[i].defect # "parse"} \subseteq uc_bfhCalled

(***************************************************************************)
(* CheckPacks(r, c, version, minVer, delta) of part_000:420-490: four      *)
(* workers range over the unbuffered bCh; a worker that meets an error     *)
(* sends it to eCh (buffered, capacity 4) and breaks out of its loop, else *)
(* it records r.Ok(len(failures) == 0, desc).  The producer selects, for   *)
(* every MoM entry, between the send on bCh and a receive from eCh.  An    *)
(* entry is described by what its worker meets: "low" (version below       *)
(* minVer), "err" (the manifest does not parse or the pack check returns   *)
(* an error), "fail" (the pack check returns failures), "pass".            *)
(***************************************************************************)
\* Bound: entries of the MoM when CheckPacks is run twice.
MaxRPEntries == 3
\* Bound: entries of the MoM in the runs checked for termination.
MaxRPLong == 9
RPKinds == {"low", "err", "fail", "pass"}
RPWorkers == 1..cpWorkers
RPWorkerIdle == [pc |-> "recv", test |-> TRUE, load |-> 0]
RPNoRun == [res |-> << >>, err |-> FALSE]

\* The state at the call of CheckPacks, with a fresh diva.Results.
RPStart ==
    /\ rp_pc = "start" /\ rp_i = 0 /\ rp_w = [w \in RPWorkers |-> RPWorkerIdle]
    /\ rp_eCh = 0 /\ rp_err = FALSE
    /\ rp_r = [Passed |-> 0, Failed |-> 0] /\ rp_res = EmptyBag

RPInit ==
    /\ rp_MoM \in SeqsUpTo(RPKinds, MaxRPEntries)
    /\ rp_momParses \in BOOLEAN
    /\ RPStart /\ rp_run = 1 /\ rp_first = RPNoRun

\* Initial states of the runs checked for termination: longer MoMs, every
\* entry at or above minVer.
RPLongInit ==
    /\ rp_MoM \in SeqsUpTo({"err", "pass"}, MaxRPLong)
    /\ rp_momParses = TRUE
    /\ RPStart /\ rp_run = 1 /\ rp_first = RPNoRun

\* MoM, err := swupd.ParseManifestFile(momPath); if err != nil { return err };
\* else the workers are started.
RP_ParseMoM ==
    /\ rp_pc = "start"
    /\ IF rp_momParses THEN rp_pc' = "loop" /\ UNCHANGED rp_err
       ELSE rp_pc' = "done" /\ rp_err' = TRUE
    /\ UNCHANGED <<rp_MoM, rp_momParses, rp_i, rp_w, rp_eCh, rp_r, rp_res, rp_run, rp_first>>
    /\ Frozen("rp")

RPReceivers == {w \in RPWorkers : rp_w[w].pc = "recv"}
\* select case bCh <- b: a worker at `range bCh` takes the entry and runs its
\* loop body up to `continue`, to `eCh <- e; break`, or to the call of r.Ok.
RP_SelectSend ==
    /\ rp_pc = "loop" /\ rp_i < Len(rp_MoM) /\ RPReceivers # {}
    /\ rp_i' = rp_i + 1
    /\ LET w == CHOOSE x \in RPReceivers : \A y \in RPReceivers : x <= y
           k == rp_MoM[rp_i + 1]
       IN  IF k = "low" THEN UNCHANGED <<rp_w, rp_eCh>>
           ELSE IF k = "err"
           THEN rp_eCh' = rp_eCh + 1 /\ rp_w' = [rp_w EXCEPT ![w].pc = "gone"]
           ELSE /\ rp_w' = [rp_w EXCEPT ![w] = [pc |-> "okread", test |-> (k = "pass"),
                                                load |-> 0]]
                /\ UNCHANGED rp_eCh
    /\ UNCHANGED <<rp_MoM, rp_momParses, rp_pc, rp_err, rp_r, rp_res, rp_run, rp_first>>
    /\ Frozen("rp")

\* select case err = <-eCh: the break leaves the select only, the range loop
\* goes on with the next entry.
RP_SelectErr ==
    /\ rp_pc = "loop" /\ rp_i < Len(rp_MoM) /\ rp_eCh > 0
    /\ rp_err' = TRUE /\ rp_eCh' = rp_eCh - 1
    /\ rp_i' = rp_i + 1
    /\ UNCHANGED <<rp_MoM, rp_momParses, rp_pc, rp_w, rp_r, rp_res, rp_run, rp_first>>
    /\ Frozen("rp")

\* Results.Ok, first half: the worker reads r.Passed or r.Failed.
RP_OkRead(w) ==
    /\ rp_w[w].pc = "okread"
    /\ rp_w' = [rp_w EXCEPT ![w].pc = "okwrite",
                            ![w].load = IF rp_w[w].test THEN rp_r.Passed ELSE rp_r.Failed]
    /\ UNCHANGED <<rp_MoM, rp_momParses, rp_pc, rp_i, rp_eCh, rp_err, rp_r, rp_res, rp_run,
                   rp_first>>
    /\ Frozen("rp")

\* Results.Ok, second half: the worker writes the incremented counter back
\* and r.T.Ok prints the result (followed by r.Diagnostic when it failed);
\* the worker is back at `range bCh`.
RP_OkWrite(w) ==
    /\ rp_w[w].pc = "okwrite"
    /\ rp_r' = IF rp_w[w].test THEN [rp_r EXCEPT !.Passed = rp_w[w].load + 1]
               ELSE [rp_r EXCEPT !.Failed = rp_w[w].load + 1]
    /\ rp_res' = rp_res (+) SetToBag({rp_w[w].test})
    /\ rp_w' = [rp_w EXCEPT ![w] = RPWorkerIdle]
    /\ UNCHANGED <<rp_MoM, rp_momParses, rp_pc, rp_i, rp_eCh, rp_err, rp_run, rp_first>>
    /\ Frozen("rp")

\* close(bCh); wg.Wait(): every worker has left its loop; then
\* `if err == nil && len(eCh) > 0 { err = <-eCh }`, the drain of eCh, return.
RP_Return ==
    /\ rp_pc = "loop" /\ rp_i = Len(rp_MoM)
    /\ \A w \in RPWorkers : rp_w[w].pc \in {"recv", "gone"}
    /\ rp_pc' = "done"
    /\ rp_err' = (rp_err \/ rp_eCh > 0) /\ rp_eCh' = 0
    /\ UNCHANGED <<rp_MoM, rp_momParses, rp_i, rp_w, rp_r, rp_res, rp_run, rp_first>>
    /\ Frozen("rp")

\* The verification is run a second time on the same unchanged inputs.
RP_Again ==
    /\ rp_pc = "done" /\ rp_run = 1
    /\ rp_first' = [res |-> rp_res, err |-> rp_err]
    /\ rp_run' = 2
    /\ rp_pc' = "start" /\ rp_i' = 0 /\ rp_w' = [w \in RPWorkers |-> RPWorkerIdle]
    /\ rp_eCh' = 0 /\ rp_err' = FALSE
    /\ rp_r' = [Passed |-> 0, Failed |-> 0] /\ rp_res' = EmptyBag
    /\ UNCHANGED <<rp_MoM, rp_momParses>>
    /\ Frozen("rp")

RPNext ==
    \/ RP_ParseMoM
    \/ RP_SelectSend
    \/ RP_SelectErr
    \/ \E w \in RPWorkers : RP_OkRead(w)
    \/ \E w \in RPWorkers : RP_OkWrite(w)
    \/ RP_Return
    \/ RP_Again
InitRP == RPInit /\ IdleBut("rp")
SpecRP == InitRP /\ [][RPNext]_vars

\* One run of CheckPacks.
RPLongNext ==
    \/ RP_ParseMoM
    \/ RP_SelectSend
    \/ RP_SelectErr
    \/ \E w \in RPWorkers : RP_OkRead(w)
    \/ \E w \in RPWorkers : RP_OkWrite(w)
    \/ RP_Return
InitRPLong == RPLongInit /\ IdleBut("rp")
SpecRPLong == InitRPLong /\ [][RPLongNext]_vars
\* Every goroutine that can take a step eventually does.
FairSpecRPLong == SpecRPLong /\ WF_vars(RPLongNext)

\* C22: idempotence under interleaving: the second run of CheckPacks on the
\* same inputs records the same multiset of pass/fail results as the first
\* and returns nil exactly when the first did.
C22_Idempotent ==
    (rp_pc = "done" /\ rp_run = 2) => (rp_res = rp_first.res /\ rp_err = rp_first.err)


\* C30: every call of the Results-recording CheckPacks terminates: from its
\* call the run comes to its return, whatever the MoM and the interleaving.
C30_CheckPacksReturns == (rp_pc = "start") ~> (rp_pc = "done")


\* C28: break on first failure: once the producer of CheckPacks has received
\* an error from eCh, no step hands a further entry to a worker.
C28_BreakOnFirstFailure == [][rp_err => ~RP_SelectSend]_vars


\* C23: only present entries are verified: for every sub-manifest whose zero
\* pack CheckZeroPacks has checked, checkBundleFileHashesPack reports no
\* failure for a file entry that is not present.
C23_OnlyPresentVerified ==
    \A i \in 1..zps_i :
        LET man == zps_MoM[i]
            e   == SeqBundleFileHashesPack(1, man.Files, man.staged, 0)
        IN  (man.Version >= zps_minVer /\ man.parses /\ man.tmpOK /\ man.fetchOK /\ e # NoErr)
                => man.Files[e.entry].Present

(***************************************************************************)
(* FetchUpdateFiles(conf, u): getAllManifests collects in dlFiles the blob *)
(* of every present file entry at or above MinVer; eight workers range     *)
(* over the unbuffered fChan, pass over a blob that is already cached,     *)
(* else download and extract it and send a failure to errChan (buffered,   *)
(* capacity 8).  After wg.Wait() the number of errors is printed and nil   *)
(* is returned.                                                            *)
(***************************************************************************)
\* Bound: file entries of the sub-manifests fetched.
MaxFUFiles == 2
fetchWorkers == 8

FUInit ==
    /\ fu_manOK \in BOOLEAN /\ fu_minVer \in Floors
    /\ fu_Files \in SeqsUpTo([Present : BOOLEAN, Version : Versions, dlOK : BOOLEAN], MaxFUFiles)
    /\ fu_disk \in SUBSET (1..Len(fu_Files))
    /\ fu_pc = "manifests" /\ fu_todo = {} /\ fu_errCh = 0 /\ fu_blocked = 0 /\ fu_ret = "nil"

\* dlFiles of getAllManifests: `if uint(f.Version) < mInfo.MinVer ||
\* !f.Present() { continue }`.
dlFiles == {i \in 1..Len(fu_Files) : fu_Files[i].Present /\ fu_Files[i].Version >= fu_minVer}

\* dlFiles, err := getAllManifests(mInfo); if err != nil { return err }
FU_getAllManifests ==
    /\ fu_pc = "manifests"
    /\ IF fu_manOK THEN fu_pc' = "loop" /\ fu_todo' = dlFiles /\ UNCHANGED fu_ret
       ELSE fu_pc' = "done" /\ fu_ret' = "err" /\ UNCHANGED fu_todo
    /\ UNCHANGED <<fu_manOK, fu_minVer, fu_Files, fu_disk, fu_errCh, fu_blocked>>
    /\ Frozen("fu")

\* fChan <- dlFiles[f], in map order, and the loop body of the worker that
\* takes it: Lstat of the cached blob, else TarExtractURL and the send of
\* its error.
FU_Handoff(f) ==
    /\ fu_pc = "loop" /\ f \in fu_todo /\ fu_blocked < fetchWorkers
    /\ fu_todo' = fu_todo \ {f}
    /\ IF f \in fu_disk THEN UNCHANGED <<fu_disk, fu_errCh, fu_blocked>>
       ELSE IF fu_Files[f].dlOK
       THEN fu_disk' = fu_disk \cup {f} /\ UNCHANGED <<fu_errCh, fu_blocked>>
       ELSE IF fu_errCh < fetchWorkers
       THEN fu_errCh' = fu_errCh + 1 /\ UNCHANGED <<fu_disk, fu_blocked>>
       ELSE fu_blocked' = fu_blocked + 1 /\ UNCHANGED <<fu_disk, fu_errCh>>
    /\ UNCHANGED <<fu_manOK, fu_minVer, fu_Files, fu_pc, fu_ret>>
    /\ Frozen("fu")

\* close(fChan); wg.Wait(); PrintComplete of either message; return nil.
FU_Return ==
    /\ fu_pc = "loop" /\ fu_todo = {} /\ fu_blocked = 0
    /\ fu_pc' = "done" /\ fu_ret' = "nil"
    /\ UNCHANGED <<fu_manOK, fu_minVer, fu_Files, fu_disk, fu_todo, fu_errCh, fu_blocked>>
    /\ Frozen("fu")

FUNext ==
    \/ FU_getAllManifests
    \/ \E f \in 1..MaxFUFiles : FU_Handoff(f)
    \/ FU_Return
InitFU == FUInit /\ IdleBut("fu")
SpecFU == InitFU /\ [][FUNext]_vars

\* C24: fetch collaborator guarantee: when FetchUpdateFiles has returned
\* nil, the blob of every present file entry at or above the floor is on
\* local storage.
C24_FetchGuarantee ==
    (fu_pc = "done" /\ fu_ret = "nil") => dlFiles \subseteq fu_disk

(***************************************************************************)
(* Bundle definitions (bundle/bundle.go).  GetDefinition(name, dir) calls  *)
(* getBundleDefinition with a new visitedIncludes map; readContent walks   *)
(* the lines of the bundle file and calls updateIncludes for every         *)
(* include line, which recurses into getBundleDefinition with the same     *)
(* map; after an include line readContent goes on with a new, empty map.   *)
(* A Go map is a function from the bundle names to "none" (no such key),   *)
(* "t" or "f".  The calls in progress are kept as an explicit stack.  The  *)
(* os-core bundle is taken to exist without include lines: it adds the     *)
(* same true entry to every definition and is left out.                    *)
(***************************************************************************)
BundleNames == {"A", "B", "C"}
\* Bound: include lines of a bundle file.
MaxIncludes == 2
EmptyMap == [n \in BundleNames |-> "none"]
\* isCycle(includes): some value of the map is false.
isCycle(m) == \E n \in BundleNames : m[n] = "f"
\* newDefinition(name, bundlesDir): b.Includes[name] = true.
newDefinition(name) ==
    [name |-> name, line |-> 0, Includes |-> [EmptyMap EXCEPT ![name] = "t"]]

\* Bundle files, and the order in which filepath.Walk meets them.
BDFiles == [BundleNames -> SeqsUpTo(BundleNames, MaxIncludes)]
BDWalk == <<"A", "B", "C">>

BDStart ==
    /\ bd_defs \in BDFiles
    /\ bd_stack = << >> /\ bd_maps = << >> /\ bd_pc = "run" /\ bd_err = NoErr
    /\ bd_out = [n \in BundleNames |-> EmptyMap]
\* GetAll with the resolver that flags loops: every bundle is resolved.
BDFInit == BDStart /\ bd_flags = TRUE /\ bd_todo = BDWalk
\* One GetDefinition(name, dir) with the resolver that returns an error.
BDEInit == BDStart /\ bd_flags = FALSE /\ bd_todo \in {<<n>> : n \in BundleNames}

\* GetDefinition: getBundleDefinition(name, bundlesDir, make(map[string]bool)).
BD_GetDefinition ==
    /\ bd_pc = "run" /\ bd_stack = << >> /\ bd_todo # << >>
    /\ bd_stack' = <<newDefinition(Head(bd_todo)) @@ [vis |-> 1, entry |-> EmptyMap]>>
    /\ bd_maps' = <<EmptyMap, EmptyMap>>
    /\ UNCHANGED <<bd_flags, bd_defs, bd_todo, bd_pc, bd_err, bd_out>>
    /\ Frozen("bd")

\* readContent meets the next include line and calls updateIncludes.  The
\* name is a key of visitedIncludes: the flagging resolver sets both entries
\* false and returns nil (isCycle then makes readContent `continue`), the
\* other returns the loop error, which every caller passes up.  Otherwise
\* visitedIncludes[name] = true and getBundleDefinition is entered; a call
\* for a bundle that is already being resolved from the same contents of
\* visitedIncludes repeats that resolution inside itself without end, until
\* the stack is exhausted.
BD_Include ==
    /\ bd_pc = "run" /\ bd_stack # << >>
    /\ LET d   == Len(bd_stack)
           f   == bd_stack[d]
           inc == bd_defs[f.name][f.line + 1]
           V   == bd_maps[f.vis]
           V1  == [V EXCEPT ![inc] = "t"]
       IN  /\ f.line < Len(bd_defs[f.name])
           /\ IF V[inc] # "none"
              THEN IF bd_flags
                   THEN /\ bd_stack' = [bd_stack EXCEPT ![d].Includes[inc] = "f",
                                                        ![d].line = f.line + 1]
                        /\ bd_maps' = [bd_maps EXCEPT ![f.vis][inc] = "f"]
                        /\ UNCHANGED <<bd_pc, bd_err>>
                   ELSE /\ bd_stack' = << >> /\ bd_maps' = << >>
                        /\ bd_pc' = "done"
                        /\ bd_err' = [kind |-> "loop", entry |-> 0]
              ELSE IF \E k \in 1..d : bd_stack[k].name = inc /\ bd_stack[k].entry = V1
              THEN /\ bd_pc' = "overflow"
                   /\ UNCHANGED <<bd_stack, bd_maps, bd_err>>
              ELSE /\ bd_stack' = Append(bd_stack, newDefinition(inc)
                                                      @@ [vis |-> f.vis, entry |-> V1])
                   /\ bd_maps' = Append([bd_maps EXCEPT ![f.vis] = V1], EmptyMap)
                   /\ UNCHANGED <<bd_pc, bd_err>>
    /\ UNCHANGED <<bd_flags, bd_defs, bd_todo, bd_out>>
    /\ Frozen("bd")

\* As BD_Return, but readContent goes on with the visitedIncludes it was
\* given instead of a new map.
BD_Return_NoReset ==
    /\ bd_pc = "run" /\ bd_stack # << >>
    /\ LET d == Len(bd_stack)
           f == bd_stack[d]
       IN  /\ f.line = Len(bd_defs[f.name])
           /\ IF d = 1
              THEN /\ bd_out' = [bd_out EXCEPT ![f.name] = f.Includes]
                   /\ bd_todo' = Tail(bd_todo)
                   /\ bd_stack' = << >> /\ bd_maps' = << >>
                   /\ bd_pc' = IF Tail(bd_todo) = << >> THEN "done" ELSE "run"
              ELSE LET c    == bd_stack[d - 1]
                       cInc == [n \in BundleNames |->
                                   IF n = f.name \/ f.Includes[n] # "none" THEN "t"
                                   ELSE c.Includes[n]]
                       cont == TRUE
                   IN  /\ bd_stack' = [SubSeq(bd_stack, 1, d - 1) EXCEPT
                                          ![d - 1].Includes = cInc,
                                          ![d - 1].line = c.line + 1,
                                          ![d - 1].vis = IF cont THEN c.vis ELSE d]
                       /\ bd_maps' = [SubSeq(bd_maps, 1, d) EXCEPT
                                         ![d] = IF cont THEN @ ELSE EmptyMap]
                       /\ UNCHANGED <<bd_todo, bd_pc, bd_out>>
    /\ UNCHANGED <<bd_flags, bd_defs, bd_err>>
    /\ Frozen("bd")

\* readContent is past the last line and returns b.  In updateIncludes of
\* the caller: b.Includes[packageInclude] = true and every key of
\* include.Includes is set true in b.Includes; back in the caller's
\* readContent: `continue` when the flagging resolver sees isCycle, else
\* visitedIncludes = make(map[string]bool).  The outermost return is that of
\* GetDefinition.
BD_Return ==
    /\ bd_pc = "run" /\ bd_stack # << >>
    /\ LET d == Len(bd_stack)
           f == bd_stack[d]
       IN  /\ f.line = Len(bd_defs[f.name])
           /\ IF d = 1
              THEN /\ bd_out' = [bd_out EXCEPT ![f.name] = f.Includes]
                   /\ bd_todo' = Tail(bd_todo)
                   /\ bd_stack' = << >> /\ bd_maps' = << >>
                   /\ bd_pc' = IF Tail(bd_todo) = << >> THEN "done" ELSE "run"
              ELSE LET c    == bd_stack[d - 1]
                       cInc == [n \in BundleNames |->
                                   IF n = f.name \/ f.Includes[n] # "none" THEN "t"
                                   ELSE c.Includes[n]]
                       cont == bd_flags /\ (isCycle(cInc) \/ isCycle(bd_maps[c.vis]))
                   IN  /\ bd_stack' = [SubSeq(bd_stack, 1, d - 1) EXCEPT
                                          ![d - 1].Includes = cInc,
                                          ![d - 1].line = c.line + 1,
                                          ![d - 1].vis = IF cont THEN c.vis ELSE d]
                       /\ bd_maps' = [SubSeq(bd_maps, 1, d) EXCEPT
                                         ![d] = IF cont THEN @ ELSE EmptyMap]
                       /\ UNCHANGED <<bd_todo, bd_pc, bd_out>>
    /\ UNCHANGED <<bd_flags, bd_defs, bd_err>>
    /\ Frozen("bd")

BDNext ==
    \/ BD_GetDefinition
    \/ BD_Include
    \/ BD_Return
InitBDF == BDFInit /\ IdleBut("bd")
SpecBDF == InitBDF /\ [][BDNext]_vars
InitBDE == BDEInit /\ IdleBut("bd")
SpecBDE == InitBDE /\ [][BDNext]_vars


\* The bundles that include lines lead to from n, in one step or more.
BDIncludedBy(S) == UNION {{bd_defs[m][k] : k \in 1..Len(bd_defs[m])} : m \in S}
BDReach(n) ==
    LET s1 == BDIncludedBy({n})
        s2 == s1 \cup BDIncludedBy(s1)
    IN  s2 \cup BDIncludedBy(s2)
\* An include cycle can be reached from n.
BDCycleFrom(n) == \E m \in {n} \cup BDReach(n) : m \in BDReach(m)

\* C25: GetDefinition with the resolver that returns an error terminates,
\* and returns the loop error whenever an include cycle can be reached from
\* the name: the recursion never re-enters itself without end, and a
\* definition is returned only for a name that reaches no cycle.
C25_LoopDetectionTerminates ==
    /\ bd_pc # "overflow"
    /\ (bd_pc = "done" /\ bd_err = NoErr) =>
           \A n \in BundleNames : bd_out[n] # EmptyMap => ~BDCycleFrom(n)

\* C26: include loops are always reported: when every bundle has been
\* resolved by the flagging resolver and the definitions hold an include
\* cycle, some resulting definition has an Includes entry with value false.
C26_LoopsAlwaysFlagged ==
    (bd_pc = "done" /\ \E n \in BundleNames : n \in BDReach(n))
        => \E n \in BundleNames : isCycle(bd_out[n])

(***************************************************************************)
(* Disk effects of CheckManifestHashes, CheckFileHashes, CheckZeroPack and *)
(* CheckDeltaPacks (part_000:522-918).  A path is the sequence of its      *)
(* components; the first is "cache" for c.Paths.CacheLocation and "tmp"    *)
(* for os.TempDir(), where ioutil.TempDir("", prefix) makes a directory    *)
(* with a name no other call gets (its number here).                       *)
(***************************************************************************)
\* Bound: versions CheckDeltaPacks ranges over.
MaxFSVers == 2
Join(p, c) == Append(p, c)
Dir(p) == SubSeq(p, 1, Len(p) - 1)
Base(p) == p[Len(p)]
IsUnder(p, d) == Len(p) >= Len(d) /\ SubSeq(p, 1, Len(d)) = d

\* helpers.Download(url, filename): the body goes to ".dl."+base in the
\* directory of filename, which is renamed to filename on success and removed
\* otherwise.
DownloadWrites(filename, ok) ==
    {Join(Dir(filename), ".dl." \o Base(filename))} \cup (IF ok THEN {filename} ELSE {})
\* helpers.TarExtractURL(url, target): MkdirAll(Dir(target)), Download, then
\* tar -C Dir(target) -xf target, which writes the members of the archive.
TarExtractURLWrites(target, ok, members) ==
    {Dir(target)} \cup DownloadWrites(target, ok)
        \cup (IF ok THEN {Dir(target) \o m : m \in members} ELSE {})

\* Members of a pack archive, and of the archive of one file.
PackMembers == {<<"staged", h>> : h \in Hashes} \cup {<<"delta", "1-2-h1-h2">>}
FileMembers(h) == {<<h>>}
\* checkDeltaPack: fromF := filepath.Join(dir, fromH).
DeltaSourceFile_InCache(dir, fromH) == <<"cache", "update", "1", "files", fromH>>
DeltaSourceFile(dir, fromH) == Join(dir, fromH)
\* checkSingleDelta: testFile := fromFile + ".test", written by bspatch.
TestFile(fromFile) == Join(Dir(fromFile), Base(fromFile) \o ".test")

FSInit ==
    /\ fs_op \in {"manifests", "files", "zero", "delta"}
    /\ fs_iters \in (IF fs_op = "delta" THEN 0..MaxFSVers ELSE {0})
    /\ fs_pc = "start" /\ fs_ntmp = 0 /\ fs_tmpDir = << >> /\ fs_todo = {}
    /\ fs_errs = 0 /\ fs_writes = {} /\ fs_removed = {}

\* The k-th directory ioutil.TempDir makes: the prefix and a suffix of its own.
FSTempDir(k) == <<"tmp", "check-pack-" \o ToString(k)>>
FSTmpDirs == {FSTempDir(k) : k \in 1..fs_ntmp}
\* CheckDeltaPacks goes on with the next version; after the last one the
\* workers return and their deferred os.RemoveAll(tmpDir) run.
FSNextVersion(removed) ==
    /\ fs_iters' = fs_iters - 1 /\ fs_tmpDir' = << >> /\ fs_todo' = {}
    /\ IF fs_iters = 1
       THEN fs_pc' = "done" /\ fs_removed' = removed \cup FSTmpDirs
       ELSE fs_pc' = "start" /\ fs_removed' = removed

\* CheckManifestHashes and CheckFileHashes: ParseManifestFile and Hashcalc
\* of files of the cache, nothing else.
FS_ReadCache ==
    /\ fs_pc = "start" /\ fs_op \in {"manifests", "files"}
    /\ fs_pc' = "done"
    /\ UNCHANGED <<fs_op, fs_iters, fs_ntmp, fs_tmpDir, fs_todo, fs_errs, fs_writes, fs_removed>>
    /\ Frozen("fs")

\* CheckDeltaPacks over a manifest without file entries: no worker, no work.
FS_NoVersions ==
    /\ fs_pc = "start" /\ fs_op = "delta" /\ fs_iters = 0
    /\ fs_pc' = "done"
    /\ UNCHANGED <<fs_op, fs_iters, fs_ntmp, fs_tmpDir, fs_todo, fs_errs, fs_writes, fs_removed>>
    /\ Frozen("fs")

\* tmpDir, err := ioutil.TempDir("", ...)
FS_TempDir ==
    /\ fs_pc = "start"
    /\ fs_op = "zero" \/ (fs_op = "delta" /\ fs_iters > 0)
    /\ \E ok \in BOOLEAN :
          IF ok
          THEN /\ fs_ntmp' = fs_ntmp + 1 /\ fs_tmpDir' = FSTempDir(fs_ntmp + 1)
               /\ fs_writes' = fs_writes \cup {FSTempDir(fs_ntmp + 1)}
               /\ fs_pc' = "fetch"
               /\ UNCHANGED <<fs_iters, fs_todo, fs_errs, fs_removed>>
          ELSE /\ UNCHANGED <<fs_ntmp, fs_writes>>
               /\ IF fs_op = "zero"
                  THEN /\ fs_pc' = "done" /\ fs_errs' = fs_errs + 1
                       /\ UNCHANGED <<fs_iters, fs_tmpDir, fs_todo, fs_removed>>
                  ELSE FSNextVersion(fs_removed) /\ UNCHANGED fs_errs
    /\ UNCHANGED fs_op
    /\ Frozen("fs")

\* helpers.TarExtractURL(url, filepath.Join(tmpDir, fmt.Sprint(version))) of
\* the pack.  On failure CheckZeroPack returns with an error (its deferred
\* RemoveAll is skipped), CheckDeltaPacks removes tmpDir and continues.
FS_FetchPack ==
    /\ fs_pc = "fetch"
    /\ \E ok \in BOOLEAN, members \in SUBSET PackMembers, tos \in SUBSET Hashes :
          /\ fs_writes' = fs_writes \cup TarExtractURLWrites(Join(fs_tmpDir, "2"), ok, members)
          /\ IF ok
             THEN /\ fs_pc' = IF fs_op = "zero" THEN "hash" ELSE "deltas"
                  /\ fs_todo' = IF fs_op = "zero" THEN {} ELSE tos
                  /\ UNCHANGED <<fs_iters, fs_tmpDir, fs_errs, fs_removed>>
             ELSE IF fs_op = "zero"
             THEN /\ fs_pc' = "done" /\ fs_errs' = fs_errs + 1
                  /\ UNCHANGED <<fs_iters, fs_tmpDir, fs_todo, fs_removed>>
             ELSE FSNextVersion(fs_removed \cup {fs_tmpDir}) /\ UNCHANGED fs_errs
    /\ UNCHANGED <<fs_op, fs_ntmp>>
    /\ Frozen("fs")

\* checkBundleFileHashesPack(filepath.Join(tmpDir, "staged"), m, 0) only
\* hashes; CheckZeroPack returns and its deferred function removes tmpDir
\* when errs is empty.
FS_HashStaged ==
    /\ fs_pc = "hash"
    /\ \E n \in 0..1 :
          /\ fs_errs' = fs_errs + n
          /\ fs_removed' = IF fs_errs + n = 0 THEN fs_removed \cup {fs_tmpDir} ELSE fs_removed
    /\ fs_pc' = "done"
    /\ UNCHANGED <<fs_op, fs_iters, fs_ntmp, fs_tmpDir, fs_todo, fs_writes>>
    /\ Frozen("fs")

\* checkDeltaPack, one `for h := range deltaTos`: no delta named for h, or
\* TarExtractURL of the source file to fromF and checkSingleDelta, whose
\* bspatch writes fromF + ".test"; an error ends the check of this version.
FS_Delta(h) ==
    /\ fs_pc = "deltas" /\ h \in fs_todo
    /\ \E found \in BOOLEAN, fromH \in Hashes, srcOK \in BOOLEAN, patchOK \in BOOLEAN :
          LET fromF == DeltaSourceFile(fs_tmpDir, fromH)
          IN  /\ fs_writes' = fs_writes \cup
                     (IF ~found THEN {}
                      ELSE TarExtractURLWrites(fromF, srcOK, FileMembers(fromH))
                               \cup (IF srcOK THEN {TestFile(fromF)} ELSE {}))
              /\ IF found /\ srcOK /\ patchOK
                 THEN /\ fs_todo' = fs_todo \ {h}
                      /\ UNCHANGED <<fs_iters, fs_pc, fs_tmpDir, fs_removed>>
                 ELSE FSNextVersion(fs_removed)
    /\ UNCHANGED <<fs_op, fs_ntmp, fs_errs>>
    /\ Frozen("fs")

\* checkDeltaPack returns nil.
FS_DeltasDone ==
    /\ fs_pc = "deltas" /\ fs_todo = {}
    /\ FSNextVersion(fs_removed)
    /\ UNCHANGED <<fs_op, fs_ntmp, fs_errs, fs_writes>>
    /\ Frozen("fs")

FSNext ==
    \/ FS_ReadCache
    \/ FS_NoVersions
    \/ FS_TempDir
    \/ FS_FetchPack
    \/ FS_HashStaged
    \/ \E h \in Hashes : FS_Delta(h)
    \/ FS_DeltasDone
InitFS == FSInit /\ IdleBut("fs")
SpecFS == InitFS /\ [][FSNext]_vars

FairSpecTP == SpecTP /\ WF_vars(TPNext)

\* C29: every call of the Results-recording CheckFileHashes terminates: once
\* the file-hash stage is running it comes to return.
C29_CheckFileHashesReturns == (tp_pc = "files") ~> (tp_pc # "files")

(***************************************************************************)
(* CheckFileHashes(cacheLoc, version, minVer) error of                     *)
(* updatecontent/check.go: len(MoM.Files) workers range over the           *)
(* unbuffered fChan; a worker sends the parse error of a sub-manifest or   *)
(* the error of checkBundleFileHashes to errChan, which is unbuffered and  *)
(* is read only after wg.Wait().  An entry is described by what its worker *)
(* meets: "low" (version below minVer), "parse", "bad" (a blob is missing  *)
(* or mismatches), "ok".                                                   *)
(***************************************************************************)
\* Bound: entries of the MoM.
MaxCFEntries == 3
CFKinds == {"low", "parse", "bad", "ok"}

CFInit ==
    /\ cf_MoM \in SeqsUpTo(CFKinds, MaxCFEntries)
    /\ cf_momParses \in BOOLEAN
    /\ cf_pc = "start" /\ cf_i = 0 /\ cf_blocked = 0 /\ cf_sent = 0 /\ cf_ret = "nil"

\* MoM, err := swupd.ParseManifestFile(momPath); if err != nil { return err }
CF_ParseMoM ==
    /\ cf_pc = "start"
    /\ IF cf_momParses THEN cf_pc' = "loop" /\ UNCHANGED cf_ret
       ELSE cf_pc' = "done" /\ cf_ret' = "parse"
    /\ UNCHANGED <<cf_MoM, cf_momParses, cf_i, cf_blocked, cf_sent>>
    /\ Frozen("cf")

\* fChan <- MoM.Files[i]: a worker at `range fChan` takes the entry; on an
\* error it comes to `errChan <- err`, where no goroutine receives.
CF_Handoff ==
    /\ cf_pc = "loop" /\ cf_i < Len(cf_MoM) /\ cf_blocked < Len(cf_MoM)
    /\ cf_i' = cf_i + 1
    /\ IF cf_MoM[cf_i + 1] \in {"parse", "bad"}
       THEN cf_blocked' = cf_blocked + 1 /\ cf_sent' = cf_sent + 1
       ELSE UNCHANGED <<cf_blocked, cf_sent>>
    /\ UNCHANGED <<cf_MoM, cf_momParses, cf_pc, cf_ret>>
    /\ Frozen("cf")

\* close(fChan); wg.Wait() returns when every worker has left its loop;
\* len(errChan) of an unbuffered channel is 0: return nil.
CF_Return ==
    /\ cf_pc = "loop" /\ cf_i = Len(cf_MoM) /\ cf_blocked = 0
    /\ cf_pc' = "done" /\ cf_ret' = "nil"
    /\ UNCHANGED <<cf_MoM, cf_momParses, cf_i, cf_blocked, cf_sent>>
    /\ Frozen("cf")

CFNext ==
    \/ CF_ParseMoM
    \/ CF_Handoff
    \/ CF_Return
InitCF == CFInit /\ IdleBut("cf")
SpecCF == InitCF /\ [][CFNext]_vars
\* Every goroutine that can take a step eventually does.
FairSpecCF == SpecCF /\ WF_vars(CFNext)

\* C31: CheckFileHashes always returns; on a MoM that parses it returns nil
\* exactly when no worker met an error, and the joined errors otherwise.
C31_AlwaysReturns ==
    /\ (cf_pc = "start") ~> (cf_pc = "done")
    /\ []((cf_pc = "done" /\ cf_momParses) =>
             (cf_ret = "nil" <=> cf_sent = 0) /\ (cf_ret # "nil" => cf_ret = "joined"))


(***************************************************************************)
(* FetchUpdateFiles with more files than errChan has room for errors: the  *)
(* files differ in nothing but the outcome of their download, and fChan    *)
(* is fed in map order, so the k failing files are taken to be the first k *)
(* of dlFiles.                                                             *)
(***************************************************************************)
\* Bound: files to download in the long runs.
MaxFULong == 10
FULongInit ==
    /\ fu_manOK \in BOOLEAN /\ fu_minVer = 0
    /\ \E k \in 0..MaxFULong :
          fu_Files = [i \in 1..MaxFULong |-> [Present |-> TRUE, Version |-> 1, dlOK |-> i > k]]
    /\ fu_disk = {}
    /\ fu_pc = "manifests" /\ fu_todo = {} /\ fu_errCh = 0 /\ fu_blocked = 0 /\ fu_ret = "nil"

FULongNext ==
    \/ FU_getAllManifests
    \/ \E f \in 1..MaxFULong : FU_Handoff(f)
    \/ FU_Return
InitFULong == FULongInit /\ IdleBut("fu")
SpecFULong == InitFULong /\ [][FULongNext]_vars
\* Every goroutine that can take a step eventually does.
FairSpecFULong == SpecFULong /\ WF_vars(FULongNext)

\* C32: FetchUpdateFiles returns for every number of failing downloads,
\* and every file of dlFiles has been handed to a worker when it returns.
C32_FetchTerminates ==
    /\ (fu_pc = "manifests") ~> (fu_pc = "done")
    /\ []((fu_pc = "done" /\ fu_manOK) => fu_todo = {})

(***************************************************************************)
(* downloadAllRPMs(packages, workingDir) of pkginfo/download_repo.go:      *)
(* runtime.NumCPU() dlWorkers range over the unbuffered urlCh, download a  *)
(* URL unless its file is already in outPath and send a failure to the     *)
(* unbuffered errorCh, from which one goroutine collects the errors until  *)
(* errorCh is closed.                                                      *)
(***************************************************************************)
\* Bounds: URLs of the package list, and CPUs of the machine.
MaxDRPackages == 3
MaxDRCPU == 2
DRBases == {"a.rpm", "b.rpm"}
DRNil == [err |-> "nil", n |-> 0]

DRInit ==
    /\ dr_mkdirOK \in BOOLEAN
    /\ dr_packages \in SeqsUpTo([base : DRBases, ok : BOOLEAN], MaxDRPackages)
    /\ dr_workers \in 1..MaxDRCPU
    /\ dr_files \in SUBSET DRBases
    /\ dr_w = [w \in 1..dr_workers |-> [pc |-> "recv", url |-> 0]]
    /\ dr_pc = "start" /\ dr_i = 0 /\ dr_errs = 0 /\ dr_taken = {} /\ dr_failed = 0
    /\ dr_ret = DRNil

\* if err := os.MkdirAll(outPath, 0755); err != nil { return err }
DR_MkdirAll ==
    /\ dr_pc = "start"
    /\ IF dr_mkdirOK THEN dr_pc' = "loop" /\ UNCHANGED dr_ret
       ELSE dr_pc' = "done" /\ dr_ret' = [err |-> "mkdir", n |-> 0]
    /\ UNCHANGED <<dr_mkdirOK, dr_packages, dr_workers, dr_i, dr_w, dr_files, dr_errs,
                   dr_taken, dr_failed>>
    /\ Frozen("dr")

\* urlCh <- url, received by a dlWorker at `range urlCh`, and the worker's
\* os.Stat(outFile): a file that exists is not downloaded again.
DR_Handoff(w) ==
    /\ dr_pc = "loop" /\ dr_i < Len(dr_packages) /\ dr_w[w].pc = "recv"
    /\ dr_i' = dr_i + 1
    /\ dr_taken' = dr_taken \cup {dr_i + 1}
    /\ dr_w' = [dr_w EXCEPT ![w] =
                   IF dr_packages[dr_i + 1].base \in dr_files THEN [pc |-> "recv", url |-> 0]
                   ELSE [pc |-> "dl", url |-> dr_i + 1]]
    /\ UNCHANGED <<dr_mkdirOK, dr_packages, dr_workers, dr_pc, dr_files, dr_errs,
                   dr_failed, dr_ret>>
    /\ Frozen("dr")

\* dlErr = helpers.Download(url, outFile, false)
DR_Download(w) ==
    /\ dr_pc = "loop" /\ dr_w[w].pc = "dl"
    /\ IF dr_packages[dr_w[w].url].ok
       THEN /\ dr_files' = dr_files \cup {dr_packages[dr_w[w].url].base}
            /\ dr_w' = [dr_w EXCEPT ![w] = [pc |-> "recv", url |-> 0]]
            /\ UNCHANGED dr_failed
       ELSE /\ dr_failed' = dr_failed + 1
            /\ dr_w' = [dr_w EXCEPT ![w] = [pc |-> "send", url |-> 0]]
            /\ UNCHANGED dr_files
    /\ UNCHANGED <<dr_mkdirOK, dr_packages, dr_workers, dr_pc, dr_i, dr_errs, dr_taken,
                   dr_ret>>
    /\ Frozen("dr")

\* errorCh <- dlErr, received by `for dlErr := range errorCh`:
\* errs = append(errs, dlErr)
DR_Collect(w) ==
    /\ dr_pc = "loop" /\ dr_w[w].pc = "send"
    /\ dr_errs' = dr_errs + 1
    /\ dr_w' = [dr_w EXCEPT ![w] = [pc |-> "recv", url |-> 0]]
    /\ UNCHANGED <<dr_mkdirOK, dr_packages, dr_workers, dr_pc, dr_i, dr_files, dr_taken,
                   dr_failed, dr_ret>>
    /\ Frozen("dr")

\* After close(urlCh), which follows the last send, a worker at
\* `range urlCh` leaves its loop: wg.Done().
DR_WorkerExit(w) ==
    /\ dr_pc = "loop" /\ dr_i = Len(dr_packages) /\ dr_w[w].pc = "recv"
    /\ dr_w' = [dr_w EXCEPT ![w] = [pc |-> "exit", url |-> 0]]
    /\ UNCHANGED <<dr_mkdirOK, dr_packages, dr_workers, dr_pc, dr_i, dr_files, dr_errs,
                   dr_taken, dr_failed, dr_ret>>
    /\ Frozen("dr")

\* if len(errors) > 0 { return fmt.Errorf("unable to download %d RPMs, ...",
\* len(errors)) }; return nil
DRResult_One(n) == IF n > 0 THEN [err |-> "count", n |-> 1] ELSE DRNil
DRResult(n) == IF n > 0 THEN [err |-> "count", n |-> n] ELSE DRNil

\* wg.Wait(); close(errorCh); errors := <-errSummary; the result.
DR_Return ==
    /\ dr_pc = "loop" /\ \A w \in 1..dr_workers : dr_w[w].pc = "exit"
    /\ dr_pc' = "done" /\ dr_ret' = DRResult(dr_errs)
    /\ UNCHANGED <<dr_mkdirOK, dr_packages, dr_workers, dr_i, dr_w, dr_files, dr_errs,
                   dr_taken, dr_failed>>
    /\ Frozen("dr")

DRNext ==
    \/ DR_MkdirAll
    \/ \E w \in 1..dr_workers : DR_Handoff(w)
    \/ \E w \in 1..dr_workers : DR_Download(w)
    \/ \E w \in 1..dr_workers : DR_Collect(w)
    \/ \E w \in 1..dr_workers : DR_WorkerExit(w)
    \/ DR_Return
InitDR == DRInit /\ IdleBut("dr")
SpecDR == InitDR /\ [][DRNext]_vars
\* Every goroutine that can take a step eventually does.
FairSpecDR == SpecDR /\ WF_vars(DRNext)

\* What downloadAllRPMs has done when it is back: every URL was taken by a
\* worker, the error is non-nil exactly when a download failed, and the
\* count it reports is the number of failed downloads.
DRAttemptedAndCounted ==
    /\ dr_taken = 1..Len(dr_packages)
    /\ (dr_ret # DRNil) <=> (dr_failed > 0)
    /\ (dr_ret # DRNil) => dr_ret = [err |-> "count", n |-> dr_failed]

\* C33 as stated: downloadAllRPMs terminates for every package list,
\* attempts every URL, and returns an error exactly when a download failed,
\* with the number of failed downloads as its count.
C33_Stated ==
    /\ (dr_pc = "start") ~> (dr_pc = "done")
    /\ [](dr_pc = "done" => DRAttemptedAndCounted)

\* C33 amended: the same, when the packages directory could be created; if
\* os.MkdirAll fails, that error is returned and no URL is attempted.
C33_DownloadAllRPMs ==
    /\ (dr_pc = "start") ~> (dr_pc = "done")
    /\ [](dr_pc = "done" =>
            IF dr_mkdirOK THEN DRAttemptedAndCounted
            ELSE dr_taken = {} /\ dr_ret = [err |-> "mkdir", n |-> 0])

\* C33 witness: a run has returned with two failed downloads counted and
\* one URL passed over or downloaded.
C33_Witness ==
    /\ dr_pc = "done" /\ dr_mkdirOK /\ dr_failed = 2 /\ Len(dr_packages) = 3
    /\ dr_ret = [err |-> "count", n |-> 2]

(***************************************************************************)
(* A sequence of Results.Add calls on one Results value.                   *)
(***************************************************************************)
\* Bound: calls of Add.
MaxRAAdds == 4
RAErrs == {NoErr, [kind |-> "pack", entry |-> 1]}

RAInit ==
    /\ ra_r = NewResults /\ ra_last = [err |-> NoErr, skipped |-> FALSE]

\* r.Add(name, description, err, skipped)
RA_Add ==
    /\ ra_r.Total < MaxRAAdds
    /\ \E err \in RAErrs, skipped \in BOOLEAN :
          /\ ra_r' = Add(ra_r, "t", err, skipped)
          /\ ra_last' = [err |-> err, skipped |-> skipped]
    /\ Frozen("ra")

RANext ==
    \/ RA_Add
InitRA == RAInit /\ IdleBut("ra")
SpecRA == InitRA /\ [][RANext]_vars

\* The status Add is to choose for its arguments.
RAStatusFor(a) == IF a.skipped THEN "Skip" ELSE IF a.err = NoErr THEN "Pass" ELSE "Fail"
\* The counter of a status.
RACounter(r, s) == IF s = "Skip" THEN r.Skipped ELSE IF s = "Pass" THEN r.Passed ELSE r.Failed

\* C34: Total = Passed + Failed + Skipped = len(Tests) after any sequence
\* of Add calls; each call adds one to the counter its arguments choose
\* (Skipped when skipped, else Passed for a nil err, else Failed), leaves
\* the other two alone and appends one Result with that status.
C34_CountersConsistent ==
    /\ [](/\ ra_r.Total = ra_r.Passed + ra_r.Failed + ra_r.Skipped
          /\ ra_r.Total = Len(ra_r.Tests))
    /\ [][LET s == RAStatusFor(ra_last')
          IN  /\ \A c \in {"Skip", "Pass", "Fail"} :
                    RACounter(ra_r', c) = RACounter(ra_r, c) + (IF c = s THEN 1 ELSE 0)
              /\ ra_r'.Total = ra_r.Total + 1
              /\ Len(ra_r'.Tests) = Len(ra_r.Tests) + 1
              /\ SubSeq(ra_r'.Tests, 1, Len(ra_r.Tests)) = ra_r.Tests
              /\ ra_r'.Tests[Len(ra_r'.Tests)].Status = s]_<<ra_r, ra_last>>

\* C34 witness: a skipped call with a non-nil err has been counted as
\* skipped, after a passed and a failed one.
C34_Witness ==
    /\ ra_r.Passed = 1 /\ ra_r.Failed = 1 /\ ra_r.Skipped = 1
    /\ ra_last.skipped /\ ra_last.err # NoErr


hashWorkers == 4
\* Bounds: entries of the MoM, and files of a pack.
MaxHCEntries == 3
MaxHCFiles == 2
HCWorkers == 1..cpWorkers
HCEntries ==
    {[kind |-> k, Files |-> << >>] : k \in {"low", "parse"}}
        \cup {[kind |-> "pack", Files |-> fs] : fs \in SeqsUpTo({"ok", "bad"}, MaxHCFiles)}
HCWorkerIdle == [pc |-> "recv", man |-> 0, j |-> 0, hOK |-> 0, hBad |-> 0, blk |-> 0]

HCInit ==
    /\ hc_momParses \in BOOLEAN
    /\ hc_MoM \in SeqsUpTo(HCEntries, MaxHCEntries)
    /\ hc_pc = "start" /\ hc_i = 0
    /\ hc_w = [w \in HCWorkers |-> HCWorkerIdle]

\* MoM, err := swupd.ParseManifestFile(momPath); on an error it is returned.
HC_ParseMoM ==
    /\ hc_pc = "start"
    /\ hc_pc' = IF hc_momParses THEN "loop" ELSE "done"
    /\ UNCHANGED <<hc_momParses, hc_MoM, hc_i, hc_w>>
    /\ Frozen("hc")

\* The manifest workers at `range bCh`; the one that receives is immaterial:
\* the lowest-numbered does.
HCReceivers == {w \in HCWorkers : hc_w[w].pc = "recv"}

\* bCh <- b and the worker's steps up to the call of pc(c, m): the floor
\* test, the parse of the manifest (its error is sent to eCh, where the
\* worker stays), the start of the pack check.
HC_Handoff ==
    /\ hc_pc = "loop" /\ hc_i < Len(hc_MoM) /\ HCReceivers # {}
    /\ LET w == CHOOSE x \in HCReceivers : \A y \in HCReceivers : x <= y
           b == hc_MoM[hc_i + 1]
       IN  hc_w' = [hc_w EXCEPT ![w] =
                      IF b.kind = "low" THEN HCWorkerIdle
                      ELSE IF b.kind = "parse" THEN [HCWorkerIdle EXCEPT !.pc = "send"]
                      ELSE [HCWorkerIdle EXCEPT !.pc = "pack", !.man = hc_i + 1]]
    /\ hc_i' = hc_i + 1
    /\ UNCHANGED <<hc_momParses, hc_MoM, hc_pc>>
    /\ Frozen("hc")

\* Files of the pack check of manifest worker w that are inside Hashcalc.
HCHashing(w) == hc_w[w].hOK + hc_w[w].hBad

\* checkBundleFileHashesPack: fCh <- f, received by one of the four file
\* workers that is at `range fCh`; it calls swupd.Hashcalc(fLoc).
HC_FileHandoff(w) ==
    /\ hc_pc = "loop" /\ hc_w[w].pc = "pack"
    /\ hc_w[w].j < Len(hc_MoM[hc_w[w].man].Files)
    /\ HCHashing(w) + hc_w[w].blk < hashWorkers
    /\ hc_w' = [hc_w EXCEPT ![w] =
                   IF hc_MoM[hc_w[w].man].Files[hc_w[w].j + 1] = "ok"
                   THEN [@ EXCEPT !.j = @ + 1, !.hOK = @ + 1]
                   ELSE [@ EXCEPT !.j = @ + 1, !.hBad = @ + 1]]
    /\ UNCHANGED <<hc_momParses, hc_MoM, hc_pc, hc_i>>
    /\ Frozen("hc")

\* Hashcalc returns: a file worker with a matching hash is back at
\* `range fCh`; one with an error or a mismatch comes to `eCh <- err`.
HC_HashDone(w, ok) ==
    /\ hc_pc = "loop" /\ hc_w[w].pc = "pack"
    /\ IF ok THEN hc_w[w].hOK > 0 ELSE hc_w[w].hBad > 0
    /\ hc_w' = [hc_w EXCEPT ![w] =
                   IF ok THEN [@ EXCEPT !.hOK = @ - 1]
                   ELSE [@ EXCEPT !.hBad = @ - 1, !.blk = @ + 1]]
    /\ UNCHANGED <<hc_momParses, hc_MoM, hc_pc, hc_i>>
    /\ Frozen("hc")

\* close(fCh); wg.Wait() of the pack check returns when its four file
\* workers have left their loops; no error was sent, es is empty and the
\* manifest worker is back at `range bCh`.
HC_PackReturn(w) ==
    /\ hc_pc = "loop" /\ hc_w[w].pc = "pack"
    /\ hc_w[w].j = Len(hc_MoM[hc_w[w].man].Files) /\ HCHashing(w) = 0 /\ hc_w[w].blk = 0
    /\ hc_w' = [hc_w EXCEPT ![w] = HCWorkerIdle]
    /\ UNCHANGED <<hc_momParses, hc_MoM, hc_pc, hc_i>>
    /\ Frozen("hc")

\* After close(bCh) a manifest worker at `range bCh` returns: wg.Done().
HC_WorkerExit(w) ==
    /\ hc_pc = "loop" /\ hc_i = Len(hc_MoM) /\ hc_w[w].pc = "recv"
    /\ hc_w' = [hc_w EXCEPT ![w].pc = "exit"]
    /\ UNCHANGED <<hc_momParses, hc_MoM, hc_pc, hc_i>>
    /\ Frozen("hc")

\* wg.Wait(); close(eCh); the errors are collected and returned.
HC_Return ==
    /\ hc_pc = "loop" /\ \A w \in HCWorkers : hc_w[w].pc = "exit"
    /\ hc_pc' = "done"
    /\ UNCHANGED <<hc_momParses, hc_MoM, hc_i, hc_w>>
    /\ Frozen("hc")

HCNext ==
    \/ HC_ParseMoM
    \/ HC_Handoff
    \/ \E w \in HCWorkers : HC_FileHandoff(w)
    \/ \E w \in HCWorkers, ok \in BOOLEAN : HC_HashDone(w, ok)
    \/ \E w \in HCWorkers : HC_PackReturn(w)
    \/ \E w \in HCWorkers : HC_WorkerExit(w)
    \/ HC_Return
InitHC == HCInit /\ IdleBut("hc")
SpecHC == InitHC /\ [][HCNext]_vars

RECURSIVE HCSum(_)
\* Files inside Hashcalc over the manifest workers 1..n.
HCSum(n) == IF n = 0 THEN 0 ELSE HCHashing(n) + HCSum(n - 1)

\* Within one pack check at most four files are being hashed.
HCPerPackBounded == \A w \in DOMAIN hc_w : HCHashing(w) <= hashWorkers

\* C36: bounded pack-hashing concurrency: at most four files are being
\* hashed within one call of checkBundleFileHashesPack, and at most four
\* over the whole CheckPacks run.
C36_BoundedHashing ==
    /\ HCPerPackBounded
    /\ HCSum(Len(hc_w)) <= hashWorkers


\* C37: a fully staged delta pack passes: when every present entry at the
\* header version has a staged copy that hashes to its hash, checkDeltaPack
\* returns nil, whether or not the pack has a delta directory.
C37_FullyStagedPasses ==
    (/\ dk_pc = "ret"
     /\ \A i \in 1..Len(dk_Files) :
           NeedsCheck(dk_Files[i]) => dk_pack.staged[dk_Files[i].Hash] = dk_Files[i].Hash)
        => dk_err = DNoErr


\* The temporary directories worker w has made that still exist.
DPHeld(w) == {v \in dp_w[w].dirs : dp_dir[v]}

\* C38: delta scratch directories do not accumulate: a worker of
\* CheckDeltaPacks holds at most one existing temporary directory at any
\* moment, and none made by the call exists when it has returned.
C38_NoScratchAccumulation ==
    /\ \A w \in DOMAIN dp_w : Cardinality(DPHeld(w)) <= 1
    /\ dp_pc = "done" => \A v \in DOMAIN dp_dir : ~dp_dir[v]

\* No temporary directory made by the call exists when it has returned.
DPNoneLeftAtReturn == dp_pc = "done" => \A v \in DOMAIN dp_dir : ~dp_dir[v]

(***************************************************************************)
(* appendUniqueRPMName(rpms, rpm) of pkginfo/import.go, called as          *)
(* rpms = appendUniqueRPMName(rpms, r).  An RPM is [Name, id]: id tells    *)
(* apart two RPMs of one name.                                             *)
(***************************************************************************)
\* Bounds: names of RPMs, length of the slice at the start, calls.
MaxAUNames == 3
MaxAUStart == 2
MaxAUCalls == 3
AUNames == 1..MaxAUNames
AURPMs == [Name : AUNames, id : {1, 2}]

RECURSIVE AUHasName(_, _, _)
\* for i := range rpms { if rpms[i].Name == rpm.Name { return rpms } },
\* from index i on.
AUHasName(rpms, name, i) ==
    IF i > Len(rpms) THEN FALSE
    ELSE IF rpms[i].Name = name THEN TRUE
    ELSE AUHasName(rpms, name, i + 1)

\* As appendUniqueRPMName, without the test of the names.
appendUniqueRPMName_Always(rpms, rpm) == Append(rpms, rpm)
\* appendUniqueRPMName(rpms, rpm)
appendUniqueRPMName(rpms, rpm) ==
    IF AUHasName(rpms, rpm.Name, 1) THEN rpms ELSE Append(rpms, rpm)

\* The names of a slice are pairwise distinct.
AUDistinct(rpms) ==
    \A i, j \in 1..Len(rpms) : i # j => rpms[i].Name # rpms[j].Name

AUInit ==
    /\ au_rpms \in {s \in SeqsUpTo(AURPMs, MaxAUStart) : AUDistinct(s)}
    /\ au_arg = [Name |-> 1, id |-> 1] /\ au_calls = 0

\* rpms = appendUniqueRPMName(rpms, r)
AU_Append ==
    /\ au_calls < MaxAUCalls
    /\ \E r \in AURPMs :
          /\ au_rpms' = appendUniqueRPMName(au_rpms, r)
          /\ au_arg' = r
    /\ au_calls' = au_calls + 1
    /\ Frozen("au")

AUNext ==
    \/ AU_Append
InitAU == AUInit /\ IdleBut("au")
SpecAU == InitAU /\ [][AUNext]_vars

\* C39: appendUniqueRPMName keeps names unique and order stable: starting
\* from a slice of pairwise distinct names, no two RPMs of the slice share
\* a Name after any sequence of calls; each call keeps the elements that
\* were there at their positions and appends the rpm at the end exactly
\* when its Name was not in the slice.
C39_UniqueAndStable ==
    /\ [] AUDistinct(au_rpms)
    /\ [][LET had == \E i \in 1..Len(au_rpms) : au_rpms[i].Name = au_arg'.Name
          IN  /\ SubSeq(au_rpms', 1, Len(au_rpms)) = au_rpms
              /\ had => au_rpms' = au_rpms
              /\ ~had => au_rpms' = Append(au_rpms, au_arg')]_<<au_rpms, au_arg, au_calls>>

\* C39 witness: one call has been turned down for an RPM of a name that
\* was there, another has appended an RPM of a new name.
C39_Witness ==
    /\ au_calls = 2 /\ Len(au_rpms) = 3
    /\ \E i \in 1..2 : au_rpms[i].Name = au_arg.Name /\ au_rpms[i].id # au_arg.id

=============================================================================
